---- MODULE Spec2Model ----
(***************************************************************************)
(* fastpasta: the dispatcher / link-validator fan-out                      *)
(* (analyze/validators/validator_dispatcher.rs), the check configuration   *)
(* (config/lib.rs) and the start-up and exit-code logic of main.rs.        *)
(*                                                                         *)
(* Threads are the main thread (scanner + ValidatorDispatcher), one worker *)
(* thread per DispatchId and the stats thread.  Every channel operation is *)
(* one atomic step; a blocking send is a step that is not enabled while    *)
(* the channel is full, a blocking recv one that is not enabled while the  *)
(* channel is empty and still connected.                                   *)
(***************************************************************************)
EXTENDS Integers, Sequences, FiniteSets, TLC

\* ------------------------------------------------------------------ bounds

\* RDHs in a short input stream.
MaxTuples == 3
\* Largest CdpArray handed to one dispatch_cdp_batch call.
MaxBatch == 2
\* RDHs a long, single-link input stream holds beyond a full first channel.
LongExtra == 2
\* Workers spawned one after another when the capacity schedule is run.
MaxSpawn == 130
\* Bytes the input of main() holds at most.
MaxInputLen == 65

\* ------------------------------------------------------- program constants

INITIAL_CHAN_CAP == 128
\* Width of usize on the 64-bit targets the tool is built for.
UsizeBits == 64
\* An RDH is 64 bytes, four subwords of 16 bytes.
RDH_SIZE_BYTES == 64
RDH0_SIZE_BYTES == 16
\* The exit status of a Rust process whose main thread panics.
PANIC_EXIT_CODE == 101

Pow2(n) == 2 ^ n

\* A usize as the set of the positions of its one-bits, so that values up
\* to 2^64 - 1 are represented exactly.
BitsOf(x) == {b \in 0..30 : (x \div Pow2(b)) % 2 = 1}

RECURSIVE ValueOf(_)
ValueOf(S) ==
    IF S = {} THEN 0
    ELSE LET b == CHOOSE x \in S : TRUE IN Pow2(b) + ValueOf(S \ {b})

\* usize << k for a shift amount in range (k < 64): the bits shifted out
\* of the word are lost.
ShlBits(S, k) == {b + k : b \in S} \cap (0..(UsizeBits - 1))

SetMax(S) == CHOOSE x \in S : \A y \in S : y <= x

\* S < T as unsigned integers.
LtBits(S, T) ==
    /\ S # T
    /\ SetMax((S \ T) \cup (T \ S)) \in T

UPPER_CHAN_CAP == ValueOf(ShlBits(BitsOf(INITIAL_CHAN_CAP), 7))

\* ---------------------------------------------------------- configuration

Systems == {"NoSystem", "ITS", "ITS_Stave"}

\* Option<CheckCommands>: None, Some(Sanity{system}) or Some(All{system}),
\* system an Option<System>.
CheckOptions ==
    {[cmd |-> "NoCheck", system |-> "NoSystem"]}
        \cup [cmd : {"Sanity", "All"}, system : Systems]

\* A faulty AlpideDispatch: every `check all` with a system dispatches
\* by FEE ID.
AlpideDispatchAnySystem(check) ==
    /\ check.cmd = "All"
    /\ check.system # "NoSystem"

\* The condition of dispatch_cdp_batch: check().is_some_and(|c| if let
\* All{system} = c { system.is_some_and(|s| s == ITS_Stave) } else { false }).
AlpideDispatch(check) ==
    /\ check.cmd # "NoCheck"
    /\ IF check.cmd = "All"
          THEN check.system # "NoSystem" /\ check.system = "ITS_Stave"
          ELSE FALSE

\* Config::alpide_checks_enabled.
alpide_checks_enabled(check) ==
    check.cmd = "All" /\ check.system = "ITS_Stave"

\* ------------------------------------------------------------------- input

\* ------------------------------------------------------ the configuration

\* An Option<T>: << >> for None, << v >> for Some(v).
IsSome(opt) == opt # << >>

\* str::ends_with on a path held as the sequence of its parts.
EndsWith(path, suffix) ==
    /\ Len(path) >= Len(suffix)
    /\ SubSeq(path, Len(path) - Len(suffix) + 1, Len(path)) = suffix

\* The paths --input-stats may name: none, a .json file, a .toml file, a
\* file without extension and a file whose name only contains .json.
StatsPaths ==
    {<< >>, << << "stats", ".json" >> >>, << << "stats", ".toml" >> >>,
     << << "stats" >> >>, << << "stats", ".json", ".bak" >> >>}

\* The most errors -e/--max-errors asks to tolerate in a modelled run.
MaxQuota == 2

\* The options of a run besides the check command: --its-trigger-period,
\* --filter-its-stave, -E/--any-errors-exit-code, --input-stats and
\* -e/--max-errors.
Configs ==
    [its_trigger_period : {<< >>, << 198 >>},
     filter_its_stave : {<< >>, << "L0_12" >>},
     any_errors_exit_code : {<< >>, << 0 >>, << 123 >>},
     input_stats_file : StatsPaths,
     max_tolerate_errors : 0..MaxQuota]

\* A run with none of these options given.
DefaultConfig ==
    [its_trigger_period |-> << >>, filter_its_stave |-> << >>,
     any_errors_exit_code |-> << >>, input_stats_file |-> << >>,
     max_tolerate_errors |-> 0]

\* Check::target(): the system of the check command, if one is given.
Target(chk) == IF chk.system = "NoSystem" THEN << >> ELSE << chk.system >>

\* Config::validate_args of the config crate: the first rule a
\* configuration breaks, or Ok.
validate_args(chk, cfg) ==
    IF chk.cmd # "NoCheck" /\ IsSome(Target(chk))
          /\ chk.cmd = "Sanity" /\ Target(chk) = << "ITS_Stave" >>
        THEN "Err_sanity_its_stave"
    ELSE IF chk.cmd # "NoCheck" /\ IsSome(Target(chk))
          /\ Target(chk) # << "ITS_Stave" >>
          /\ IsSome(cfg.its_trigger_period)
        THEN "Err_trigger_period"
    ELSE IF chk.cmd # "NoCheck" /\ ~IsSome(Target(chk))
          /\ IsSome(cfg.its_trigger_period)
        THEN "Err_trigger_period"
    ELSE IF chk.cmd = "NoCheck" /\ IsSome(cfg.its_trigger_period)
        THEN "Err_trigger_period"
    ELSE IF cfg.any_errors_exit_code = << 0 >>
        THEN "Err_exit_code_zero"
    ELSE IF IsSome(cfg.input_stats_file)
          /\ ~EndsWith(cfg.input_stats_file[1], << ".json" >>)
          /\ ~EndsWith(cfg.input_stats_file[1], << ".toml" >>)
        THEN "Err_stats_extension"
    ELSE "Ok"

\* Config::validate_args of util: a check of ITS staves needs a stave
\* filter, and a trigger period is refused with a target other than
\* ITS staves; everything else is Ok.
util_validate_args(chk, cfg) ==
    IF chk.cmd # "NoCheck" /\ IsSome(Target(chk))
        THEN IF Target(chk) = << "ITS_Stave" >>
                THEN IF ~IsSome(cfg.filter_its_stave)
                        THEN "Err_no_stave"
                        ELSE "Ok"
                ELSE IF IsSome(cfg.its_trigger_period)
                        THEN "Err_trigger_period"
                        ELSE "Ok"
        ELSE "Ok"

\* Result::is_err.
IsErr(result) == result # "Ok"

\* The RDH fields the dispatcher and the running checks read.  Two FEE IDs
\* share link 0, and FEE 524 is seen on links 0 and 1; `ok` is whether the
\* RDH passes the validator's sanity checks.  Each RDH is a CDP of its own:
\* page 0 with the stop bit.
RDHs ==
    { [fee_id |-> 524, link_id |-> 0, ok |-> TRUE,
       pages_counter |-> 0, stop_bit |-> 1],
      [fee_id |-> 525, link_id |-> 0, ok |-> FALSE,
       pages_counter |-> 0, stop_bit |-> 1],
      [fee_id |-> 524, link_id |-> 1, ok |-> TRUE,
       pages_counter |-> 0, stop_bit |-> 1] }

\* RDHs of CDPs of two pages: on link 0, FEE 524 sends a first page and a
\* last page, FEE 525 a CDP of one page, and one more RDH of FEE 524
\* fails the sanity checks.
RunRDHs ==
    { [fee_id |-> 524, link_id |-> 0, ok |-> TRUE,
       pages_counter |-> 0, stop_bit |-> 0],
      [fee_id |-> 524, link_id |-> 0, ok |-> TRUE,
       pages_counter |-> 1, stop_bit |-> 1],
      [fee_id |-> 525, link_id |-> 0, ok |-> TRUE,
       pages_counter |-> 0, stop_bit |-> 1],
      [fee_id |-> 524, link_id |-> 0, ok |-> FALSE,
       pages_counter |-> 0, stop_bit |-> 1] }

\* First bytes of the input: the two known RDH versions and two others.
HeaderIds == {0, 6, 7, 8}

\* `rdh.link_id() as u16`.
AsU16(x) == x % Pow2(16)

\* The DispatchId dispatch_cdp_batch computes for an RDH.
DispatchIdOf(check, rdh) ==
    IF AlpideDispatch(check) THEN rdh.fee_id ELSE AsU16(rdh.link_id)

\* ------------------------------------------------------ channel capacity

\* The capacity init_validator gives the channel it creates, len being
\* processors.len() after the push, for a shift amount in range.
ChanCapacity(len) ==
    IF len = 1
        THEN INITIAL_CHAN_CAP
        ELSE LET shifted == ShlBits(BitsOf(INITIAL_CHAN_CAP), len)
             IN  IF LtBits(shifted, BitsOf(UPPER_CHAN_CAP))
                    THEN ValueOf(shifted)
                    ELSE UPPER_CHAN_CAP

\* What init_validator can do for processors.len() = len.  A shift by 64
\* or more is an arithmetic overflow: a build with overflow checks panics,
\* a build without them shifts by len mod 64.
InitValidatorOutcomes(len) ==
    IF len = 1 \/ len < UsizeBits
        THEN {[panicked |-> FALSE, cap |-> ChanCapacity(len)]}
        ELSE {[panicked |-> TRUE, cap |-> 0],
              [panicked |-> FALSE, cap |-> ChanCapacity(len % UsizeBits)]}

\* ------------------------------------------------------------------- state

VARIABLES
    check,                    \* global_config.check()
    alphabet,                 \* the RDHs the input stream may hold
    limit,                    \* the most RDHs the input stream holds
    scanned,                  \* RDHs the scanner has read so far
    cdp_array,                \* what is left of the CdpArray being dispatched
    processors,               \* Vec<DispatchId>
    process_channels,         \* Vec<Sender>: each sender names its channel
    validator_thread_handles, \* Vec<JoinHandle>: each handle names its thread
    chan,                     \* the bounded channels, by worker
    worker,                   \* the worker threads: "running" or "exited"
    pc,                       \* where the main thread is
    stats_inbox,              \* the unbounded channel to the stats thread
    stats_senders,            \* who holds a sender of the stats channel
    stats,                    \* the aggregate the stats thread owns
    stats_pc,                 \* the stats thread: "running" or "exited"
    dispatched,               \* history: the tuples given to dispatch_by_id
    sent,                     \* history: the tuples sent, by worker
    received,                 \* history: the tuples received, by worker
    joined,                   \* history: the threads joined, in order
    events_sent,              \* history: the events sent to the stats thread
    main_pc,                  \* where main() is
    reader_ok,                \* whether init_reader returns Ok
    input_len,                \* bytes the input holds
    header_id,                \* the first byte of the input
    process_result,           \* what fastpasta::process returned, if called
    exit_code,                \* the ExitCode of the process, once set
    config,                   \* the command line options besides the check
    validated,                \* what validate_args returned, if called
    stop_flag,                \* the shared atomic flag that ends processing
    prev_rdh,                 \* the last RDH each worker has validated
    lane_data,                \* bytes of the lane the decoder has yet to read
    decoder,                  \* the AlpideLaneFrameDecoder
    handled,                  \* what process did with each byte so far
    lane_pc,                  \* where validate_alpide_frame is
    lane_frames,              \* the lane data frames of a readout frame
    validated_lanes,          \* Vec<ValidatedLane> of a readout frame
    lane_error_msgs,          \* AlpideReadoutFrame::lane_error_msgs
    lane_error_ids,           \* AlpideReadoutFrame::lane_error_ids
    frame_pc,                 \* where check_alpide_data_frame is
    output_mode,              \* what Cfg::output_mode returned, if called
    payload_skipped,          \* what Cfg::skip_payload returned, if called
    input_packets,            \* the packets the input of a filter run holds
    input_data,               \* the same input as the scanner reads it
    read_pos,                 \* how far the scanner has read
    output_data,              \* what was written to the output so far
    filter_stats,             \* the counters of the scanner
    filter_pc,                \* where the filter run is
    tdh_input,                \* the TDHs still to come on the stave
    prev_tdh,                 \* the TDH seen last, if any
    tdhs_checked,             \* the TDHs seen so far
    period_errors,            \* the trigger period errors reported so far
    view_stream,              \* the CdpArrays a run hands to the view
    view_out,                 \* the lines written to stdout by the view
    view_pc,                  \* where the run of the view is
    observed,                 \* the counters of the run, once it is over
    input_stats,              \* the snapshot given by --input-stats, if any
    custom_checks,            \* the expected values of --checks-toml
    post_errors,              \* the errors reported after the run
    post_pc                   \* where the stats thread is after the run

\* The state of main().
mainVars ==
    << main_pc, reader_ok, input_len, header_id, process_result, exit_code,
       config, validated >>

\* The state of the dispatcher, its workers and the scanner feeding it.
dispatchVars ==
    << check, alphabet, limit, scanned, cdp_array, processors,
       process_channels, validator_thread_handles, chan, worker, pc,
       dispatched, sent, received, joined, prev_rdh >>

\* The state of the stats thread and its channel.
statsVars ==
    << stats_inbox, stats_senders, stats, stats_pc, events_sent, stop_flag >>

\* The state of the decoder of one ALPIDE lane.
laneVars == << lane_data, decoder, handled, lane_pc >>

\* The state of the analysis of one ALPIDE readout frame.
frameVars ==
    << lane_frames, validated_lanes, lane_error_msgs, lane_error_ids,
       frame_pc >>

\* The state of a run in filter mode.
filterVars ==
    << input_packets, input_data, read_pos, output_data, filter_stats,
       filter_pc >>

\* The state of the trigger period check.
triggerVars == << tdh_input, prev_tdh, tdhs_checked, period_errors >>

\* The state of a run of the RDH view.
viewVars == << view_stream, view_out, view_pc >>

\* The comparisons the stats thread makes once the run is over.
postVars ==
    << observed, input_stats, custom_checks, post_errors, post_pc >>

\* What was asked of the configuration about the output.
outputVars == << output_mode, payload_skipped >>

\* The state of the payload analysis, of the output configuration and of
\* a filter run.
analysisVars ==
    << laneVars, frameVars, outputVars, filterVars, triggerVars, viewVars,
       postVars >>

vars == << mainVars, dispatchVars, statsVars, analysisVars >>

Workers == 1..Len(worker)

\* A CdpTuple (rdh, data, mem_pos).  The payload bytes travel with the
\* tuple and are read by nobody on the way, so the tuple is identified by
\* its memory position, here the index of its RDH in the stream.
CdpTuple(rdh, mem_pos) == [rdh |-> rdh, mem_pos |-> mem_pos]

\* History record of one dispatch_by_id call: the tuple and the id given.
Dispatched(t, id) == [rdh |-> t.rdh, mem_pos |-> t.mem_pos, id |-> id]

RdhSeen == [kind |-> "RdhSeen", arg |-> 1, rule |-> ""]
ErrorAt(mem_pos) == [kind |-> "Error", arg |-> mem_pos, rule |-> "sanity"]
PageErrorAt(mem_pos) == [kind |-> "Error", arg |-> mem_pos, rule |-> "pages"]
RdhVersion(v) == [kind |-> "RdhVersion", arg |-> v, rule |-> ""]
Fatal == [kind |-> "Fatal", arg |-> 0, rule |-> ""]

\* No lane is being decoded.
LaneIdle ==
    /\ lane_data = << >>
    /\ decoder = << >>
    /\ handled = << >>
    /\ lane_pc = "idle"

\* No readout frame is being analysed.
FrameIdle ==
    /\ lane_frames = << >>
    /\ validated_lanes = << >>
    /\ lane_error_msgs = << >>
    /\ lane_error_ids = << >>
    /\ frame_pc = "idle"

\* Nobody has asked for the output mode.
OutputIdle == output_mode = << >> /\ payload_skipped = << >>

\* No filter run is under way.
FilterIdle ==
    /\ input_packets = << >>
    /\ input_data = << >>
    /\ read_pos = 0
    /\ output_data = << >>
    /\ filter_stats = [rdhs_seen |-> 0, rdhs_filtered |-> 0, report |-> << >>]
    /\ filter_pc = "idle"

\* No trigger period is being checked.
TriggerIdle ==
    /\ tdh_input = << >>
    /\ prev_tdh = << >>
    /\ tdhs_checked = << >>
    /\ period_errors = << >>

\* No view is being rendered.
ViewIdle ==
    /\ view_stream = << >>
    /\ view_out = << >>
    /\ view_pc = "idle"

PostIdle ==
    /\ observed = << >>
    /\ input_stats = << >>
    /\ custom_checks = << >>
    /\ post_errors = << >>
    /\ post_pc = "idle"

AnalysisIdle ==
    LaneIdle /\ FrameIdle /\ OutputIdle /\ FilterIdle /\ TriggerIdle
    /\ ViewIdle
    /\ PostIdle

InitCommon ==
    /\ scanned = 0
    /\ cdp_array = << >>
    /\ processors = << >>
    /\ process_channels = << >>
    /\ validator_thread_handles = << >>
    /\ chan = << >>
    /\ worker = << >>
    /\ pc = "dispatch"
    /\ stats_inbox = << >>
    /\ stats_senders = {0}
    /\ stats = [rdhs_seen |-> 0, err_count |-> 0, rdh_version |-> << >>,
                fatal |-> FALSE]
    /\ stats_pc = "running"
    /\ dispatched = << >>
    /\ sent = << >>
    /\ received = << >>
    /\ joined = << >>
    /\ events_sent = << >>
    /\ validated = << >>
    /\ stop_flag = FALSE
    /\ prev_rdh = << >>

\* main() has read a first RDH of a known version and is inside
\* fastpasta::process.
InProcess ==
    /\ main_pc = "process"
    /\ reader_ok = TRUE
    /\ input_len = RDH_SIZE_BYTES
    /\ header_id = 7
    /\ process_result = << >>
    /\ exit_code = << >>
    /\ config = DefaultConfig

\* ValidatorDispatcher::new on a fresh run: any check configuration, a
\* short input stream over all the RDHs.
Init ==
    /\ InitCommon
    /\ AnalysisIdle
    /\ InProcess
    /\ check \in CheckOptions
    /\ alphabet = RDHs
    /\ limit = MaxTuples

\* ------------------------------------------------------------- the scanner

\* All the sequences over S of length n.
SeqsOfLen(S, n) == [1..n -> S]

\* The scanner, inside fastpasta::process and as long as the stop flag is
\* not set, reads the next RDHs of the stream, reports each to the stats
\* thread and hands them over as one CdpArray.
LoadBatch ==
    /\ main_pc = "process"
    /\ pc = "dispatch"
    /\ cdp_array = << >>
    /\ ~stop_flag
    /\ \E n \in 1..MaxBatch :
          /\ scanned + n <= limit
          /\ \E rdhs \in SeqsOfLen(alphabet, n) :
                /\ cdp_array' = [i \in 1..n |-> CdpTuple(rdhs[i], scanned + i)]
                /\ scanned' = scanned + n
                /\ stats_inbox' = stats_inbox \o [i \in 1..n |-> RdhSeen]
                /\ events_sent' = events_sent \o [i \in 1..n |-> RdhSeen]
    /\ UNCHANGED mainVars
    /\ UNCHANGED analysisVars
    /\ UNCHANGED << stop_flag, prev_rdh >>
    /\ UNCHANGED << check, alphabet, limit, processors, process_channels,
                    validator_thread_handles, chan, worker, pc,
                    stats_senders, stats, stats_pc, dispatched, sent,
                    received, joined >>

\* ---------------------------------------------------------- the dispatcher

\* processors.iter().position(|&proc_id| proc_id == id): the first index
\* holding id, 0 for None.
Position(procs, id) ==
    IF \E i \in 1..Len(procs) : procs[i] = id
        THEN CHOOSE i \in 1..Len(procs) :
                /\ procs[i] = id
                /\ \A j \in 1..(i - 1) : procs[j] # id
        ELSE 0

\* A faulty TargetIndex: the tuple goes to the newest worker.
TargetIndexLast(procs, id) == Len(procs)

\* The index dispatch_by_id sends a tuple of a known id through.
TargetIndex(procs, id) == Position(procs, id)

\* A faulty HasRoom: send never waits.
HasRoomAlways(c) == TRUE

\* A send on a bounded channel goes through only while the channel holds
\* fewer tuples than its capacity; until then the sender is blocked.
HasRoom(c) == Len(c.queue) < c.cap

\* A faulty Enqueue: the tuple jumps the queue.
EnqueueFront(c, t) == [c EXCEPT !.queue = << t >> \o @]

\* Sender::send on channel c: the tuple is appended to the queue.
Enqueue(c, t) == [c EXCEPT !.queue = Append(@, t)]

\* dispatch_by_id, the ID already in the list of processors: a blocking
\* send through the channel at the ID's index.
DispatchKnown ==
    /\ pc = "dispatch"
    /\ cdp_array # << >>
    /\ LET t == Head(cdp_array)
           id == DispatchIdOf(check, t.rdh)
           index == TargetIndex(processors, id)
       IN  /\ Position(processors, id) # 0
           /\ index \in 1..Len(process_channels)
           /\ LET c == process_channels[index]
              IN  /\ HasRoom(chan[c])
                  /\ chan[c].receiver
                  /\ chan' = [chan EXCEPT ![c] = Enqueue(@, t)]
                  /\ sent' = [sent EXCEPT ![c] = Append(@, t)]
           /\ dispatched' = Append(dispatched, Dispatched(t, id))
    /\ cdp_array' = Tail(cdp_array)
    /\ UNCHANGED mainVars
    /\ UNCHANGED analysisVars
    /\ UNCHANGED << stop_flag, prev_rdh >>
    /\ UNCHANGED << check, alphabet, limit, scanned, processors,
                    process_channels, validator_thread_handles, worker, pc,
                    stats_inbox, stats_senders, stats, stats_pc, received,
                    joined, events_sent >>

\* dispatch_by_id, the ID not found: init_validator pushes the ID and the
\* sender of a new channel, the worker thread is spawned with its own clone
\* of the stats sender, and the tuple is sent through the last channel.
DispatchNew ==
    /\ pc = "dispatch"
    /\ cdp_array # << >>
    /\ LET t == Head(cdp_array)
           id == DispatchIdOf(check, t.rdh)
           w == Len(worker) + 1
       IN  /\ Position(processors, id) = 0
           /\ processors' = Append(processors, id)
           \* Fewer than 57 workers exist within the bounds, so the shift
           \* neither overflows nor yields a zero capacity here.
           /\ \E out \in InitValidatorOutcomes(Len(processors')) :
                 /\ ~out.panicked
                 /\ out.cap > 0
                 /\ chan' = Append(chan, [cap |-> out.cap, queue |-> << t >>,
                                          senders |-> 1, receiver |-> TRUE])
           /\ process_channels' = Append(process_channels, w)
           /\ validator_thread_handles' = Append(validator_thread_handles, w)
           /\ worker' = Append(worker, "running")
           /\ stats_senders' = stats_senders \cup {w}
           /\ sent' = Append(sent, << t >>)
           /\ received' = Append(received, << >>)
           /\ prev_rdh' = Append(prev_rdh, << >>)
           /\ dispatched' = Append(dispatched, Dispatched(t, id))
    /\ cdp_array' = Tail(cdp_array)
    /\ UNCHANGED mainVars
    /\ UNCHANGED analysisVars
    /\ UNCHANGED << stop_flag >>
    /\ UNCHANGED << check, alphabet, limit, scanned, pc, stats_inbox,
                    stats, stats_pc, joined, events_sent >>

\* A faulty JoinFirstStep: join does not clear process_channels.
JoinSkipClear == "drain"

\* join begins with process_channels.clear().
JoinFirstStep == "clear"

\* The scanner has stopped producing (end of input, or the stop flag was
\* seen between two tuples) and the main thread calls join.
StartJoin ==
    /\ main_pc = "process"
    /\ pc = "dispatch"
    /\ cdp_array = << >>
    /\ pc' = JoinFirstStep
    /\ UNCHANGED mainVars
    /\ UNCHANGED analysisVars
    /\ UNCHANGED << stop_flag, prev_rdh >>
    /\ UNCHANGED << check, alphabet, limit, scanned, cdp_array, processors,
                    process_channels, validator_thread_handles, chan,
                    worker, stats_inbox, stats_senders, stats, stats_pc,
                    dispatched, sent, received, joined, events_sent >>

\* join waits for a thread only once process_channels.clear() is done.
JoinMayWait == pc = "drain"

\* join, process_channels.clear(): the senders are dropped front to back,
\* each drop disconnecting its channel.
JoinDropSender ==
    /\ pc = "clear"
    /\ process_channels # << >>
    /\ LET c == Head(process_channels)
       IN  chan' = [chan EXCEPT ![c].senders = @ - 1]
    /\ process_channels' = Tail(process_channels)
    /\ UNCHANGED mainVars
    /\ UNCHANGED analysisVars
    /\ UNCHANGED << stop_flag, prev_rdh >>
    /\ UNCHANGED << check, alphabet, limit, scanned, cdp_array, processors,
                    validator_thread_handles, worker, pc, stats_inbox,
                    stats_senders, stats, stats_pc, dispatched, sent,
                    received, joined, events_sent >>

\* join, the clear is done and the drain of the handles begins.
JoinCleared ==
    /\ pc = "clear"
    /\ process_channels = << >>
    /\ pc' = "drain"
    /\ UNCHANGED mainVars
    /\ UNCHANGED analysisVars
    /\ UNCHANGED << stop_flag, prev_rdh >>
    /\ UNCHANGED << check, alphabet, limit, scanned, cdp_array, processors,
                    process_channels, validator_thread_handles, chan,
                    worker, stats_inbox, stats_senders, stats, stats_pc,
                    dispatched, sent, received, joined, events_sent >>

\* A faulty NextHandle: the threads are joined newest first.
NextHandleLast(handles) == handles[Len(handles)]

\* validator_thread_handles.drain(..) yields the handles front to back.
NextHandle(handles) == Head(handles)

\* join, handle.join() on the next handle: returns once that thread has
\* exited.
JoinWorker ==
    /\ JoinMayWait
    /\ validator_thread_handles # << >>
    /\ LET h == NextHandle(validator_thread_handles)
       IN  /\ worker[h] = "exited"
           /\ joined' = Append(joined, h)
           /\ validator_thread_handles' =
                 SelectSeq(validator_thread_handles, LAMBDA x : x # h)
    /\ UNCHANGED mainVars
    /\ UNCHANGED analysisVars
    /\ UNCHANGED << stop_flag, prev_rdh >>
    /\ UNCHANGED << check, alphabet, limit, scanned, cdp_array, processors,
                    process_channels, chan, worker, pc, stats_inbox,
                    stats_senders, stats, stats_pc, dispatched, sent,
                    received, events_sent >>

\* join returns when the drain has yielded every handle.
JoinDone == pc = "drain" /\ validator_thread_handles = << >>

\* join has returned: the dispatcher is dropped, and with it the main
\* thread's sender of the stats channel.
Finish ==
    /\ JoinDone
    /\ pc' = "done"
    /\ stats_senders' = stats_senders \ {0}
    /\ UNCHANGED mainVars
    /\ UNCHANGED analysisVars
    /\ UNCHANGED << stop_flag, prev_rdh >>
    /\ UNCHANGED << check, alphabet, limit, scanned, cdp_array, processors,
                    process_channels, validator_thread_handles, chan,
                    worker, stats_inbox, stats, stats_pc, dispatched, sent,
                    received, joined, events_sent >>

\* ------------------------------------------------------------- the workers

\* The sanity checks of one RDH: an error, with the memory position, for
\* an RDH that fails one.
SanityEvents(t) ==
    IF t.rdh.ok THEN << >> ELSE << ErrorAt(t.mem_pos) >>

\* A faulty PageSequenceOk: the page after a stop bit is not looked at.
PageSequenceOkAfterStop(prev, r) ==
    prev.stop_bit = 1 \/ r.pages_counter = prev.pages_counter + 1

\* A faulty PageSequenceOk: every page is taken for the first of a CDP.
PageSequenceOkPageZero(prev, r) == r.pages_counter = 0

\* The page sequence rule: after a page with the stop bit comes page 0,
\* after any other page comes the next page.
PageSequenceOk(prev, r) ==
    IF prev.stop_bit = 1
        THEN r.pages_counter = 0
        ELSE r.pages_counter = prev.pages_counter + 1

\* The running checks, done under `check all` on every RDH that has a
\* previous RDH in its worker: one error, with the memory position, for an
\* RDH that breaks the page sequence rule.
RunningEvents(chk, prev, t) ==
    IF chk.cmd = "All" /\ IsSome(prev) /\ ~PageSequenceOk(prev[1], t.rdh)
        THEN << PageErrorAt(t.mem_pos) >>
        ELSE << >>

\* All the events the validation of a tuple sends to the stats thread.
ValidationEvents(chk, prev, t) ==
    SanityEvents(t) \o RunningEvents(chk, prev, t)

\* Receiver::recv fails only on a channel that is empty and has no sender.
Disconnected(c) == c.senders = 0 /\ c.queue = << >>

\* A faulty AfterValidation: the worker gives up at the first error.
AfterValidationStopOnError(evs) ==
    IF evs = << >> THEN "running" ELSE "exited"

\* What the worker does after the validation of a tuple, whatever events
\* it reported: errors are not fatal, the loop goes on.
AfterValidation(evs) == "running"

\* LinkValidator::run, one turn of the loop: the worker receives the oldest
\* queued tuple, validates it, reports what it found and goes on.
WorkerRecv(w) ==
    /\ worker[w] = "running"
    /\ chan[w].queue # << >>
    /\ ~Disconnected(chan[w])
    /\ LET t == Head(chan[w].queue)
           evs == ValidationEvents(check, prev_rdh[w], t)
       IN  /\ received' = [received EXCEPT ![w] = Append(@, t)]
           /\ stats_inbox' = stats_inbox \o evs
           /\ events_sent' = events_sent \o evs
           /\ prev_rdh' = [prev_rdh EXCEPT ![w] = << t.rdh >>]
           /\ worker' = [worker EXCEPT ![w] = AfterValidation(evs)]
    /\ chan' = [chan EXCEPT ![w].queue = Tail(@)]
    /\ UNCHANGED mainVars
    /\ UNCHANGED analysisVars
    /\ UNCHANGED << stop_flag >>
    /\ UNCHANGED << check, alphabet, limit, scanned, cdp_array, processors,
                    process_channels, validator_thread_handles, pc,
                    stats_senders, stats, stats_pc, dispatched, sent,
                    joined >>

\* LinkValidator::run, recv has failed: the loop ends, the thread exits and
\* drops its receiver and its clone of the stats sender.
WorkerExit(w) ==
    /\ worker[w] = "running"
    /\ Disconnected(chan[w])
    /\ worker' = [worker EXCEPT ![w] = "exited"]
    /\ chan' = [chan EXCEPT ![w].receiver = FALSE]
    /\ stats_senders' = stats_senders \ {w}
    /\ UNCHANGED mainVars
    /\ UNCHANGED analysisVars
    /\ UNCHANGED << stop_flag, prev_rdh >>
    /\ UNCHANGED << check, alphabet, limit, scanned, cdp_array, processors,
                    process_channels, validator_thread_handles, pc,
                    stats_inbox, stats, stats_pc, dispatched, sent,
                    received, joined, events_sent >>

\* --------------------------------------------------------- the stats thread

\* What one event does to the aggregate.
ApplyAll(agg, ev) ==
    CASE ev.kind = "RdhSeen" -> [agg EXCEPT !.rdhs_seen = @ + ev.arg]
      [] ev.kind = "Error" -> [agg EXCEPT !.err_count = @ + 1]
      [] ev.kind = "RdhVersion" -> [agg EXCEPT !.rdh_version = << ev.arg >>]
      [] ev.kind = "Fatal" -> [agg EXCEPT !.fatal = TRUE]

\* A faulty Apply: an error event is not counted.
ApplyDropErrors(agg, ev) ==
    IF ev.kind = "Error" THEN agg ELSE ApplyAll(agg, ev)

\* The stats thread's handling of one event.
Apply(agg, ev) == ApplyAll(agg, ev)

\* A faulty TripsStop: a quota of 0 is a limit like any other.
TripsStopZeroIsLimit(agg, cfg) ==
    agg.fatal \/ agg.err_count > cfg.max_tolerate_errors

\* Whether the aggregate asks for the end of processing: a fatal error was
\* received, or more errors than a non-zero max_tolerate_errors; a
\* max_tolerate_errors of 0 is no limit.
TripsStop(agg, cfg) ==
    \/ agg.fatal
    \/ cfg.max_tolerate_errors > 0 /\ agg.err_count > cfg.max_tolerate_errors

\* The stats thread takes the oldest event of its inbox and applies it,
\* and sets the stop flag when the aggregate asks for it.
StatsRecv ==
    /\ stats_pc = "running"
    /\ stats_inbox # << >>
    /\ stats' = Apply(stats, Head(stats_inbox))
    /\ stop_flag' = (stop_flag \/ TripsStop(stats', config))
    /\ stats_inbox' = Tail(stats_inbox)
    /\ UNCHANGED mainVars
    /\ UNCHANGED analysisVars
    /\ UNCHANGED << prev_rdh >>
    /\ UNCHANGED << check, alphabet, limit, scanned, cdp_array, processors,
                    process_channels, validator_thread_handles, chan,
                    worker, pc, stats_senders, stats_pc, dispatched, sent,
                    received, joined, events_sent >>

\* The stats thread ends when its inbox is empty and every sender is gone.
StatsExit ==
    /\ stats_pc = "running"
    /\ stats_inbox = << >>
    /\ stats_senders = {}
    /\ stats_pc' = "exited"
    /\ UNCHANGED mainVars
    /\ UNCHANGED analysisVars
    /\ UNCHANGED << stop_flag, prev_rdh >>
    /\ UNCHANGED << check, alphabet, limit, scanned, cdp_array, processors,
                    process_channels, validator_thread_handles, chan,
                    worker, pc, stats_inbox, stats_senders, stats,
                    dispatched, sent, received, joined, events_sent >>

\* ----------------------------------------------------------- specification

Next ==
    \/ LoadBatch
    \/ DispatchKnown
    \/ DispatchNew
    \/ StartJoin
    \/ JoinDropSender
    \/ JoinCleared
    \/ JoinWorker
    \/ Finish
    \/ \E w \in Workers : WorkerRecv(w)
    \/ \E w \in Workers : WorkerExit(w)
    \/ StatsRecv
    \/ StatsExit

Spec == Init /\ [][Next]_vars

\* Input streams long enough to fill the first worker's channel: a run of
\* one valid RDH, so a single worker, under a configuration of each way of
\* dispatching.
InitLong ==
    /\ InitCommon
    /\ AnalysisIdle
    /\ InProcess
    /\ check \in {[cmd |-> "Sanity", system |-> "NoSystem"],
                  [cmd |-> "All", system |-> "ITS_Stave"]}
    /\ alphabet = {[fee_id |-> 524, link_id |-> 0, ok |-> TRUE,
                     pages_counter |-> 0, stop_bit |-> 1]}
    /\ limit = INITIAL_CHAN_CAP + LongExtra

\* The main thread and the workers; the stats thread only ever takes from
\* its unbounded inbox and is left out.
NextLong ==
    \/ LoadBatch
    \/ DispatchKnown
    \/ DispatchNew
    \/ StartJoin
    \/ JoinDropSender
    \/ JoinCleared
    \/ JoinWorker
    \/ Finish
    \/ \E w \in Workers : WorkerRecv(w)
    \/ \E w \in Workers : WorkerExit(w)

SpecLong == InitLong /\ [][NextLong]_vars

\* Each thread that can take a step eventually takes one (the operating
\* system schedules every runnable thread), and the input is finite.
MainStep ==
    \/ LoadBatch
    \/ DispatchKnown
    \/ DispatchNew
    \/ StartJoin
    \/ JoinDropSender
    \/ JoinCleared
    \/ JoinWorker
    \/ Finish

WorkerStep(w) == w \in Workers /\ (WorkerRecv(w) \/ WorkerExit(w))

StatsStep == StatsRecv \/ StatsExit

\* No more worker threads than DispatchIds, no more DispatchIds than RDHs.
WorkerIds == 1..Cardinality(RDHs)

Fairness ==
    /\ WF_vars(MainStep)
    /\ \A w \in WorkerIds : WF_vars(WorkerStep(w))
    /\ WF_vars(StatsStep)

FairSpec == Spec /\ Fairness

FairSpecLong == SpecLong /\ Fairness

\* ------------------------------------------------- the capacity schedule

\* init_validator called for one fresh DispatchId after another, no tuple
\* being sent: the ID is pushed, then the channel is created with the
\* capacity computed from processors.len(), then its sender is pushed.
InitValidatorFresh ==
    /\ pc = "dispatch"
    /\ Len(processors) < MaxSpawn
    /\ processors' = Append(processors, Len(processors))
    /\ \E out \in InitValidatorOutcomes(Len(processors')) :
          IF out.panicked
              THEN /\ pc' = "panicked"
                   /\ UNCHANGED << chan, process_channels >>
              ELSE /\ pc' = pc
                   /\ chan' = Append(chan, [cap |-> out.cap, queue |-> << >>,
                                            senders |-> 1, receiver |-> TRUE])
                   /\ process_channels' =
                         Append(process_channels, Len(chan) + 1)
    /\ UNCHANGED mainVars
    /\ UNCHANGED analysisVars
    /\ UNCHANGED statsVars
    /\ UNCHANGED << stop_flag, prev_rdh >>
    /\ UNCHANGED << check, alphabet, limit, scanned, cdp_array,
                    validator_thread_handles, worker, dispatched, sent,
                    received, joined >>

InitCap ==
    /\ InitCommon
    /\ AnalysisIdle
    /\ InProcess
    /\ check \in CheckOptions
    /\ alphabet = RDHs
    /\ limit = 0

SpecCap == InitCap /\ [][InitValidatorFresh]_vars

\* ------------------------------------------------------------------ main()

\* main() after init_stats_controller: the stats thread runs, main holds
\* the only sender, the configuration is any check command with or without
\* a trigger period, and the input is any file or stream: missing or
\* present, of any length, with any first byte.
InitMain ==
    /\ InitCommon
    /\ AnalysisIdle
    /\ check \in CheckOptions
    /\ alphabet = RDHs
    /\ limit = 0
    /\ main_pc = "init_reader"
    /\ reader_ok \in BOOLEAN
    /\ input_len \in 0..MaxInputLen
    /\ header_id \in HeaderIds
    /\ process_result = << >>
    /\ exit_code = << >>
    /\ config \in {DefaultConfig,
                   [DefaultConfig EXCEPT !.its_trigger_period = << 198 >>]}

\* A faulty ExitCodeOf: the codes of a processing error and of an
\* unknown RDH version are exchanged.
ExitCodeOfSwapped(outcome) ==
    CASE outcome = "reader_err" -> 1
      [] outcome = "process_ok" -> 0
      [] outcome = "process_err" -> 3
      [] outcome = "unknown_version" -> 2

\* The ExitCode main and init_processing return for each way a run ends.
ExitCodeOf(outcome) ==
    CASE outcome = "reader_err" -> 1
      [] outcome = "process_ok" -> 0
      [] outcome = "process_err" -> 2
      [] outcome = "unknown_version" -> 3

\* Sender::send on the stats channel.
SendStat(ev) ==
    /\ stats_inbox' = Append(stats_inbox, ev)
    /\ events_sent' = Append(events_sent, ev)

\* main, init_reader returned Err: the error is reported as Fatal, the
\* sender is dropped and the exit code is 1.
InitReaderErr ==
    /\ main_pc = "init_reader"
    /\ ~reader_ok
    /\ SendStat(Fatal)
    /\ stats_senders' = {}
    /\ exit_code' = << ExitCodeOf("reader_err") >>
    /\ main_pc' = "join_stats"
    /\ UNCHANGED << config, validated >>
    /\ UNCHANGED analysisVars
    /\ UNCHANGED << reader_ok, input_len, header_id, process_result >>
    /\ UNCHANGED << stats, stats_pc, stop_flag >>
    /\ UNCHANGED dispatchVars

\* main, init_reader returned Ok: init_processing is called.
InitReaderOk ==
    /\ main_pc = "init_reader"
    /\ reader_ok
    /\ main_pc' = "load_rdh0"
    /\ UNCHANGED << config, validated >>
    /\ UNCHANGED analysisVars
    /\ UNCHANGED << reader_ok, input_len, header_id, process_result,
                    exit_code >>
    /\ UNCHANGED statsVars
    /\ UNCHANGED dispatchVars

\* Rdh0::load (read_exact of the first subword) succeeds when the input
\* holds the subword.
Rdh0Loads(len) == len >= RDH0_SIZE_BYTES

\* init_processing, Rdh0::load(..).expect(..): a failed load panics the
\* main thread, which unwinds (dropping the sender) and ends the process;
\* a successful one is followed by the RdhVersion event.
LoadRdh0 ==
    /\ main_pc = "load_rdh0"
    /\ IF Rdh0Loads(input_len)
          THEN /\ SendStat(RdhVersion(header_id))
               /\ main_pc' = "match_version"
               /\ UNCHANGED << stats_senders, exit_code >>
          ELSE /\ main_pc' = "panicked"
               /\ exit_code' = << PANIC_EXIT_CODE >>
               /\ stats_senders' = {}
               /\ UNCHANGED << stats_inbox, events_sent >>
    /\ UNCHANGED << config, validated >>
    /\ UNCHANGED analysisVars
    /\ UNCHANGED << reader_ok, input_len, header_id, process_result >>
    /\ UNCHANGED << stats, stats_pc, stop_flag >>
    /\ UNCHANGED dispatchVars

\* init_processing, match rdh_version: 6 and 7 call fastpasta::process,
\* anything else is reported as Fatal and returns exit code 3.
MatchVersion ==
    /\ main_pc = "match_version"
    /\ IF header_id \in {6, 7}
          THEN /\ main_pc' = "process"
               /\ UNCHANGED << stats_inbox, events_sent, stats_senders,
                               exit_code >>
          ELSE /\ SendStat(Fatal)
               /\ exit_code' = << ExitCodeOf("unknown_version") >>
               /\ stats_senders' = {}
               /\ main_pc' = "join_stats"
    /\ UNCHANGED << config, validated >>
    /\ UNCHANGED analysisVars
    /\ UNCHANGED << reader_ok, input_len, header_id, process_result >>
    /\ UNCHANGED << stats, stats_pc, stop_flag >>
    /\ UNCHANGED dispatchVars

\* init_processing, fastpasta::process returns: Ok gives exit code 0, Err
\* is reported as Fatal and gives exit code 2.  On return every sender of
\* init_processing goes out of scope.
ProcessReturns ==
    /\ main_pc = "process"
    /\ \E r \in {"Ok", "Err"} :
          /\ process_result' = << r >>
          /\ IF r = "Ok"
                THEN /\ exit_code' = << ExitCodeOf("process_ok") >>
                     /\ UNCHANGED << stats_inbox, events_sent >>
                ELSE /\ SendStat(Fatal)
                     /\ exit_code' = << ExitCodeOf("process_err") >>
    /\ stats_senders' = {}
    /\ main_pc' = "join_stats"
    /\ UNCHANGED << config, validated >>
    /\ UNCHANGED analysisVars
    /\ UNCHANGED << reader_ok, input_len, header_id >>
    /\ UNCHANGED << stats, stats_pc, stop_flag >>
    /\ UNCHANGED dispatchVars

\* main, stat_controller.join(): returns once the stats thread has ended;
\* main then returns the exit code.
JoinStats ==
    /\ main_pc = "join_stats"
    /\ stats_pc = "exited"
    /\ main_pc' = "exited"
    /\ UNCHANGED << config, validated >>
    /\ UNCHANGED analysisVars
    /\ UNCHANGED << reader_ok, input_len, header_id, process_result,
                    exit_code >>
    /\ UNCHANGED statsVars
    /\ UNCHANGED dispatchVars

NextMain ==
    \/ InitReaderErr
    \/ InitReaderOk
    \/ LoadRdh0
    \/ MatchVersion
    \/ ProcessReturns
    \/ JoinStats
    \/ StatsRecv
    \/ StatsExit

SpecMain == InitMain /\ [][NextMain]_vars

\* ------------------------------------------------------------ a whole run

\* init_processing, fastpasta::process returns Ok once the dispatcher has
\* joined its workers: the exit code is 0.
ProcessOk ==
    /\ main_pc = "process"
    /\ pc = "done"
    /\ process_result' = << "Ok" >>
    /\ exit_code' = << ExitCodeOf("process_ok") >>
    /\ main_pc' = "join_stats"
    /\ UNCHANGED << config, validated >>
    /\ UNCHANGED analysisVars
    /\ UNCHANGED << reader_ok, input_len, header_id >>
    /\ UNCHANGED statsVars
    /\ UNCHANGED dispatchVars

\* main() from init_reader to its return, with the scanner, the
\* dispatcher, the workers and the stats thread at work inside
\* fastpasta::process.
NextRun ==
    \/ InitReaderErr
    \/ InitReaderOk
    \/ LoadRdh0
    \/ MatchVersion
    \/ LoadBatch
    \/ DispatchKnown
    \/ DispatchNew
    \/ StartJoin
    \/ JoinDropSender
    \/ JoinCleared
    \/ JoinWorker
    \/ Finish
    \/ ProcessOk
    \/ JoinStats
    \/ \E w \in Workers : WorkerRecv(w)
    \/ \E w \in Workers : WorkerExit(w)
    \/ StatsRecv
    \/ StatsExit

\* A run from the start of main(): a reader that opens or not, a first
\* RDH of version 7 or of an unknown version, then a short stream over
\* rdhs, under one of checks and one of configs.
InitRunOver(checks, configs, rdhs) ==
    /\ InitCommon
    /\ AnalysisIdle
    /\ check \in checks
    /\ config \in configs
    /\ alphabet = rdhs
    /\ limit = MaxTuples
    /\ main_pc = "init_reader"
    /\ reader_ok \in BOOLEAN
    /\ input_len = RDH_SIZE_BYTES
    /\ header_id \in {7, 8}
    /\ process_result = << >>
    /\ exit_code = << >>

\* The steps of the main thread in a whole run.
MainRunStep ==
    \/ InitReaderErr
    \/ InitReaderOk
    \/ LoadRdh0
    \/ MatchVersion
    \/ MainStep
    \/ ProcessOk
    \/ JoinStats

FairnessRun ==
    /\ WF_vars(MainRunStep)
    /\ \A w \in WorkerIds : WF_vars(WorkerStep(w))
    /\ WF_vars(StatsStep)

\* Runs with and without -E/--any-errors-exit-code.
InitExit ==
    InitRunOver({[cmd |-> "Sanity", system |-> "NoSystem"]},
                {DefaultConfig,
                 [DefaultConfig EXCEPT !.any_errors_exit_code = << 123 >>]},
                RDHs)

SpecExit == InitExit /\ [][NextRun]_vars

\* Runs with every -e/--max-errors from 0 to MaxQuota.
InitStop ==
    InitRunOver({[cmd |-> "Sanity", system |-> "NoSystem"]},
                {cfg \in Configs : /\ cfg.its_trigger_period = << >>
                                   /\ cfg.filter_its_stave = << >>
                                   /\ cfg.any_errors_exit_code = << >>
                                   /\ cfg.input_stats_file = << >>},
                RDHs)

SpecStop == InitStop /\ [][NextRun]_vars

\* Runs over CDPs of several pages, under `check sanity` and under
\* `check all` with each target.
InitPages ==
    InitRunOver({[cmd |-> "Sanity", system |-> "NoSystem"],
                 [cmd |-> "Sanity", system |-> "ITS"],
                 [cmd |-> "All", system |-> "NoSystem"],
                 [cmd |-> "All", system |-> "ITS"],
                 [cmd |-> "All", system |-> "ITS_Stave"]},
                {DefaultConfig}, RunRDHs)

SpecPages == InitPages /\ [][NextRun]_vars

\* Runs over streams with errors of both kinds, under `check all` by link
\* and by FEE ID: a first page, a CDP of another FEE ID and an RDH that
\* fails the sanity checks.
InitFaulty ==
    InitRunOver({[cmd |-> "All", system |-> "NoSystem"],
                 [cmd |-> "All", system |-> "ITS_Stave"]},
                {DefaultConfig},
                {rdh \in RunRDHs : rdh.pages_counter = 0})

SpecFaulty == InitFaulty /\ [][NextRun]_vars

FairSpecFaulty == SpecFaulty /\ FairnessRun

\* ---------------------------------------------------------- validate_args

\* A configuration as the command line parser hands it over: any check
\* command with any of the other options, nothing validated yet.
InitCfg ==
    /\ InitCommon
    /\ AnalysisIdle
    /\ check \in CheckOptions
    /\ config \in Configs
    /\ alphabet = RDHs
    /\ limit = 0
    /\ main_pc = "get_config"
    /\ reader_ok = TRUE
    /\ input_len = RDH_SIZE_BYTES
    /\ header_id = 7
    /\ process_result = << >>
    /\ exit_code = << >>

\* What a call of validate_args leaves behind: who answered, and what.
Validated(by, result) == << [by |-> by, result |-> result] >>

\* A call of Config::validate_args of the config crate.
ValidateArgs ==
    /\ validated = << >>
    /\ validated' = Validated("config", validate_args(check, config))
    /\ UNCHANGED << main_pc, reader_ok, input_len, header_id, process_result,
                    exit_code, config >>
    /\ UNCHANGED analysisVars
    /\ UNCHANGED dispatchVars
    /\ UNCHANGED statsVars

\* A call of Config::validate_args of util.
UtilValidateArgs ==
    /\ validated = << >>
    /\ validated' = Validated("util", util_validate_args(check, config))
    /\ UNCHANGED << main_pc, reader_ok, input_len, header_id, process_result,
                    exit_code, config >>
    /\ UNCHANGED analysisVars
    /\ UNCHANGED dispatchVars
    /\ UNCHANGED statsVars

NextCfg ==
    \/ ValidateArgs
    \/ UtilValidateArgs

SpecCfg == InitCfg /\ [][NextCfg]_vars

\* ---------------------------------------------------- ALPIDE lane decoder

\* The most bytes of a lane whose every value is tried.
MaxLaneLen == 4

Barrels == {"Inner", "Outer"}

\* AlpideWord::from_byte: the word a byte stands for, by the word table
\* (first match wins), "Err" for a byte that is no word.
from_byte(byte) ==
    IF byte \div 16 = 10 THEN "ChipHeader"
    ELSE IF byte \div 16 = 14 THEN "ChipEmptyFrame"
    ELSE IF byte \div 16 = 11 THEN "ChipTrailer"
    ELSE IF byte \div 32 = 6 THEN "RegionHeader"
    ELSE IF byte \div 64 = 1 THEN "DataShort"
    ELSE IF byte \div 64 = 0 THEN "DataLong"
    ELSE IF byte = 241 THEN "BusyOn"
    ELSE IF byte = 240 THEN "BusyOff"
    ELSE "Err"

\* AlpideLaneFrameDecoder::new, with the lane number that
\* validate_alpide_frame takes from the lane data frame.
NewDecoder(data_origin, lane_number) ==
    [lane_number |-> lane_number,
     is_header_seen |-> FALSE,
     last_chip_id |-> 0,
     skip_n_bytes |-> 0,
     chip_data |-> << >>,
     next_is_bc |-> FALSE,
     errors |-> << >>,
     barrel |-> << data_origin >>]

\* AlpideFrameChipData::from_id_no_data
from_id_no_data(chip_id) == [chip_id |-> chip_id, bunch_counter |-> << >>]

\* AlpideFrameChipData::store_bc: a chip records one bunch counter; a
\* second, conflicting value is flagged and the first one kept.
store_bc(cd, bc) ==
    IF IsSome(cd.bunch_counter) /\ cd.bunch_counter[1] # bc
    THEN [cd |-> cd, result |-> "Err_bc_conflict"]
    ELSE [cd |-> [cd EXCEPT !.bunch_counter = << bc >>], result |-> "Ok"]

\* The positions of chip_data whose chip id is id, what find looks for.
Found(chip_data, id) ==
    { i \in 1..Len(chip_data) : chip_data[i].chip_id = id }

\* A faulty store_bunch_counter: it never looks the chip up and pushes a
\* new chip data for every bunch counter.
store_bunch_counter_always_push(d, bc) ==
    LET stored == store_bc(from_id_no_data(d.last_chip_id), bc)
    IN  [d EXCEPT !.chip_data = Append(@, stored.cd)]

\* AlpideLaneFrameDecoder::store_bunch_counter, the error it returns
\* pushed to errors as process does.
store_bunch_counter(d, bc) ==
    LET found == Found(d.chip_data, d.last_chip_id)
    IN  IF found # {}
        THEN LET i == CHOOSE j \in found : \A k \in found : j <= k
                 stored == store_bc(d.chip_data[i], bc)
             IN  [d EXCEPT !.chip_data[i] = stored.cd,
                           !.errors = IF stored.result = "Ok" THEN @
                                      ELSE Append(@, stored.result)]
        ELSE LET stored == store_bc(from_id_no_data(d.last_chip_id), bc)
             IN  [d EXCEPT !.chip_data = Append(@, stored.cd)]

\* A faulty process: it takes no byte for padding.
HandledAsNoPadding(d, byte) ==
    IF d.skip_n_bytes > 0 THEN "Skipped"
    ELSE IF d.next_is_bc THEN "BunchCounter"
    ELSE from_byte(byte)

\* A faulty process: it looks for padding before it looks at
\* skip_n_bytes and next_is_bc.
HandledAsPaddingFirst(d, byte) ==
    IF ~d.is_header_seen /\ byte = 0 THEN "Padding"
    ELSE IF d.skip_n_bytes > 0 THEN "Skipped"
    ELSE IF d.next_is_bc THEN "BunchCounter"
    ELSE from_byte(byte)

\* The branch of process that a byte takes: a skipped data byte, a bunch
\* counter, padding, or the word it decodes to.
HandledAs(d, byte) ==
    IF d.skip_n_bytes > 0 THEN "Skipped"
    ELSE IF d.next_is_bc THEN "BunchCounter"
    ELSE IF ~d.is_header_seen /\ byte = 0 THEN "Padding"
    ELSE from_byte(byte)

\* AlpideLaneFrameDecoder::process
process(d, byte) ==
    LET as == HandledAs(d, byte)
    IN  CASE as = "Skipped" -> [d EXCEPT !.skip_n_bytes = @ - 1]
          [] as = "BunchCounter" ->
                [store_bunch_counter(d, byte) EXCEPT !.next_is_bc = FALSE]
          [] as = "ChipHeader" ->
                [d EXCEPT !.is_header_seen = TRUE,
                          !.last_chip_id = byte % 16,
                          !.next_is_bc = TRUE]
          [] as = "ChipEmptyFrame" ->
                [d EXCEPT !.is_header_seen = FALSE,
                          !.last_chip_id = byte % 16,
                          !.next_is_bc = TRUE]
          [] as = "ChipTrailer" -> [d EXCEPT !.is_header_seen = FALSE]
          [] as = "RegionHeader" -> [d EXCEPT !.is_header_seen = TRUE]
          [] as = "DataShort" -> [d EXCEPT !.skip_n_bytes = 1]
          [] as = "DataLong" -> [d EXCEPT !.skip_n_bytes = 2]
          [] OTHER -> d

\* The chip ids of chip_data, in the order the chips were first seen.
ChipIds(d) == [i \in 1..Len(d.chip_data) |-> d.chip_data[i].chip_id]

\* AlpideLaneFrameDecoder::check_bunch_counters
check_bunch_counters(d) ==
    IF Cardinality({ d.chip_data[i].bunch_counter :
                        i \in 1..Len(d.chip_data) }) > 1
    THEN "Err_bunch_counters" ELSE "Ok"

\* AlpideLaneFrameDecoder::check_chip_count
check_chip_count(d) ==
    IF d.barrel = << "Inner" >>
    THEN IF Len(d.chip_data) # 1 THEN "Err_chip_count" ELSE "Ok"
    ELSE IF Len(d.chip_data) # 7 THEN "Err_chip_count" ELSE "Ok"

\* AlpideLaneFrameDecoder::check_chip_id_order.  chip_ids[0] of an empty
\* vector is an index out of bounds: the thread panics.
check_chip_id_order(d) ==
    IF d.barrel = << "Inner" >>
    THEN IF Len(d.chip_data) = 0 THEN "Panic"
         ELSE IF ChipIds(d)[1] # d.lane_number THEN "Err_chip_id_order"
         ELSE "Ok"
    ELSE IF d.barrel = << "Outer" >>
    THEN IF /\ ChipIds(d) # << 0, 1, 2, 3, 4, 5, 6 >>
            /\ ChipIds(d) # << 8, 9, 10, 11, 12, 13, 14 >>
         THEN "Err_chip_id_order" ELSE "Ok"
    ELSE "Ok"

\* errors with the message of a check that failed pushed to it.
PushErr(errors, result) ==
    IF result = "Ok" THEN errors ELSE Append(errors, result)

\* The bytes tried at every place of a lane: padding or DATA_LONG, a
\* DATA_SHORT, two CHIP_HEADERs, a CHIP_TRAILER, a REGION_HEADER, a
\* CHIP_EMPTY_FRAME and a BUSY_ON.
LaneBytes == {0, 64, 160, 161, 176, 192, 224, 241}

\* The bunch counter of the chips of a well-formed lane.
FrameBc(id) == 5

RECURSIVE EmptyFrames(_)
\* A lane of one CHIP_EMPTY_FRAME, with its bunch counter, per chip id.
EmptyFrames(ids) ==
    IF ids = << >> THEN << >>
    ELSE << 224 + Head(ids), FrameBc(Head(ids)) >> \o EmptyFrames(Tail(ids))

\* The chips of the longer lanes: both Outer Barrel orders, one chip too
\* few, one too many, a repeated chip, and the seven chips out of order.
ChipOrders ==
    { << 0, 1, 2, 3, 4, 5, 6 >>, << 8, 9, 10, 11, 12, 13, 14 >>,
      << 0, 1, 2, 3, 4, 5 >>, << 0, 1, 2, 3, 4, 5, 6, 7 >>,
      << 0, 1, 2, 3, 4, 5, 6, 0 >>, << 1, 0, 2, 3, 4, 5, 6 >>,
      << 7, 8, 9, 10, 11, 12, 13 >> }

\* The lanes a decoder is given: every short lane over LaneBytes, and
\* the longer lanes of ChipOrders.
LaneInputs ==
    UNION { [1..n -> LaneBytes] : n \in 0..MaxLaneLen }
        \cup { EmptyFrames(ids) : ids \in ChipOrders }

LaneNumbers == {0, 1}

\* The payload of a CDP is being analysed under `check all its-stave`;
\* the rest of the program stands still.
PayloadAnalysis ==
    /\ InitCommon
    /\ InProcess
    /\ check = [cmd |-> "All", system |-> "ITS_Stave"]
    /\ alphabet = RDHs
    /\ limit = 0

\* check_alpide_data_frame has made a decoder for a lane and calls
\* validate_alpide_frame.
InitLane ==
    /\ PayloadAnalysis
    /\ FrameIdle
    /\ OutputIdle
    /\ FilterIdle
    /\ TriggerIdle
    /\ ViewIdle
    /\ PostIdle
    /\ lane_data \in LaneInputs
    /\ \E data_origin \in Barrels, lane_number \in LaneNumbers :
          decoder = NewDecoder(data_origin, lane_number)
    /\ handled = << >>
    /\ lane_pc = "process"

\* One turn of the for_each of validate_alpide_frame.
ProcessByte ==
    /\ lane_pc = "process"
    /\ lane_data # << >>
    /\ decoder' = process(decoder, Head(lane_data))
    /\ handled' = Append(handled, [byte |-> Head(lane_data),
                                   as |-> HandledAs(decoder, Head(lane_data))])
    /\ lane_data' = Tail(lane_data)
    /\ UNCHANGED lane_pc
    /\ UNCHANGED << mainVars, dispatchVars, statsVars, frameVars,
                    outputVars, filterVars, triggerVars >>
    /\ UNCHANGED viewVars
    /\ UNCHANGED postVars

\* errors after check_bunch_counters and check_chip_count.
ErrorsBeforeChipIdOrder(d) ==
    PushErr(PushErr(d.errors, check_bunch_counters(d)), check_chip_count(d))

\* The checks of validate_alpide_frame after the last byte, when it
\* returns: Ok without errors, else Err with the errors.
ValidateAlpideFrameReturns ==
    /\ lane_pc = "process"
    /\ lane_data = << >>
    /\ check_chip_id_order(decoder) # "Panic"
    /\ decoder' = [decoder EXCEPT !.errors =
                      PushErr(ErrorsBeforeChipIdOrder(decoder),
                              check_chip_id_order(decoder))]
    /\ lane_pc' = IF decoder'.errors = << >> THEN "Ok" ELSE "Err"
    /\ UNCHANGED << lane_data, handled >>
    /\ UNCHANGED << mainVars, dispatchVars, statsVars, frameVars,
                    outputVars, filterVars, triggerVars >>
    /\ UNCHANGED viewVars
    /\ UNCHANGED postVars

\* The checks of validate_alpide_frame after the last byte, when
\* check_chip_id_order panics: nothing is returned.
ValidateAlpideFramePanics ==
    /\ lane_pc = "process"
    /\ lane_data = << >>
    /\ check_chip_id_order(decoder) = "Panic"
    /\ decoder' = [decoder EXCEPT !.errors = ErrorsBeforeChipIdOrder(decoder)]
    /\ lane_pc' = "panicked"
    /\ UNCHANGED << lane_data, handled >>
    /\ UNCHANGED << mainVars, dispatchVars, statsVars, frameVars,
                    outputVars, filterVars, triggerVars >>
    /\ UNCHANGED viewVars
    /\ UNCHANGED postVars

NextLane ==
    \/ ProcessByte
    \/ ValidateAlpideFrameReturns
    \/ ValidateAlpideFramePanics

SpecLane == InitLane /\ [][NextLane]_vars

\* ------------------------------------------------ ALPIDE readout frame

\* The most lanes of a readout frame.
MaxLanes == 3

\* The bunch counters a validated lane may carry.
FrameBcs == {10, 11, 12}

\* ValidatedLane
ValidatedLane(lane_id, bunch_counter) ==
    [lane_id |-> lane_id, bunch_counter |-> bunch_counter]

\* What check_alpide_data_frame pushes for a lane whose analysis failed.
LaneError(lane_number) == [kind |-> "lane", lanes |-> << lane_number >>,
                           partitions |-> << >>]

RECURSIVE Unique(_)
\* Itertools::unique: the first occurrence of each element, in order.
Unique(seq) ==
    IF seq = << >> THEN << >>
    ELSE LET front == Unique(SubSeq(seq, 1, Len(seq) - 1))
             last == seq[Len(seq)]
         IN  IF \E i \in 1..Len(front) : front[i] = last
             THEN front ELSE Append(front, last)

\* The lane ids of lanes, in order.
LaneIds(lanes) == [i \in 1..Len(lanes) |-> lanes[i].lane_id]

\* The ids of the lanes that carry bunch_counter, in order.
LanesWith(lanes, bunch_counter) ==
    LaneIds(SelectSeq(lanes, LAMBDA lane : lane.bunch_counter = bunch_counter))

RECURSIVE FlatLanes(_)
\* flat_map over lanes_to_bunch_counter: the lanes of every entry.
FlatLanes(lanes_to_bunch_counter) ==
    IF lanes_to_bunch_counter = << >> THEN << >>
    ELSE Head(lanes_to_bunch_counter).lanes
            \o FlatLanes(Tail(lanes_to_bunch_counter))

\* A faulty test of validate_lane_bcs: any bunch counter at all counts
\* as a mismatch.
BcsMismatchAny(unique_bunch_counters) == Len(unique_bunch_counters) > 0

\* The test of validate_lane_bcs: more than one distinct bunch counter.
BcsMismatch(unique_bunch_counters) == Len(unique_bunch_counters) > 1

\* validate_lane_bcs: the two error lists it leaves behind.
validate_lane_bcs(lanes, error_msgs, error_ids) ==
    LET unique_bunch_counters ==
            Unique([i \in 1..Len(lanes) |-> lanes[i].bunch_counter])
        lanes_to_bunch_counter ==
            [i \in 1..Len(unique_bunch_counters) |->
                [bunch_counter |-> unique_bunch_counters[i],
                 lanes |-> LanesWith(lanes, unique_bunch_counters[i])]]
        error_string == [kind |-> "bc_mismatch", lanes |-> LaneIds(lanes),
                         partitions |-> lanes_to_bunch_counter]
    IN  IF BcsMismatch(unique_bunch_counters)
        THEN [lane_error_msgs |-> Append(error_msgs, error_string),
              lane_error_ids |-> error_ids \o FlatLanes(lanes_to_bunch_counter)]
        ELSE [lane_error_msgs |-> error_msgs, lane_error_ids |-> error_ids]

\* How the analysis of a lane ends: no such lane in the frame, an error,
\* or no error; a lane that is there has the bunch counter of its chips.
LaneOutcomes ==
    { << "absent" >> }
        \cup { << result, bc >> : result \in {"Err", "Ok"}, bc \in FrameBcs }

\* The lanes of a frame, by lane number.
FrameLanes == [i \in 1..MaxLanes |-> i - 1]

\* check_alpide_data_frame is called with a readout frame: each lane of
\* the frame is absent or there, and the lanes that are there are taken
\* in order.
InitFrame ==
    /\ PayloadAnalysis
    /\ LaneIdle
    /\ OutputIdle
    /\ FilterIdle
    /\ TriggerIdle
    /\ ViewIdle
    /\ PostIdle
    /\ \E outcome \in [0..(MaxLanes - 1) -> LaneOutcomes] :
          LET there == SelectSeq(FrameLanes,
                                 LAMBDA l : outcome[l][1] # "absent")
          IN  lane_frames =
                 [i \in 1..Len(there) |->
                     [lane_number |-> there[i],
                      result |-> outcome[there[i]][1],
                      bunch_counter |-> outcome[there[i]][2]]]
    /\ validated_lanes = << >>
    /\ lane_error_msgs = << >>
    /\ lane_error_ids = << >>
    /\ frame_pc = "for_each"

\* A faulty test of the result of a lane: no lane counts as failed.
AnalysisFailedNever(lane) == FALSE

\* The test check_alpide_data_frame makes on the result of a lane: the
\* analysis returned Err.
AnalysisFailed(lane) == lane.result = "Err"

\* One turn of the for_each of check_alpide_data_frame: a lane whose
\* analysis failed goes to the error lists, any other lane to the
\* validated lanes with its bunch counter.
AnalyzeLane ==
    /\ frame_pc = "for_each"
    /\ Len(validated_lanes) + Len(lane_error_ids) < Len(lane_frames)
    /\ LET lane == lane_frames[Len(validated_lanes) + Len(lane_error_ids) + 1]
       IN  IF AnalysisFailed(lane)
           THEN /\ lane_error_msgs' =
                      Append(lane_error_msgs, LaneError(lane.lane_number))
                /\ lane_error_ids' = Append(lane_error_ids, lane.lane_number)
                /\ UNCHANGED validated_lanes
           ELSE /\ validated_lanes' =
                      Append(validated_lanes,
                             ValidatedLane(lane.lane_number,
                                           lane.bunch_counter))
                /\ UNCHANGED << lane_error_msgs, lane_error_ids >>
    /\ UNCHANGED << lane_frames, frame_pc >>
    /\ UNCHANGED << mainVars, dispatchVars, statsVars, laneVars, outputVars,
                    filterVars, triggerVars >>
    /\ UNCHANGED viewVars
    /\ UNCHANGED postVars

\* The call of validate_lane_bcs and the return of
\* check_alpide_data_frame.
ValidateLaneBcs ==
    /\ frame_pc = "for_each"
    /\ Len(validated_lanes) + Len(lane_error_ids) = Len(lane_frames)
    /\ LET after == validate_lane_bcs(validated_lanes, lane_error_msgs,
                                      lane_error_ids)
       IN  /\ lane_error_msgs' = after.lane_error_msgs
           /\ lane_error_ids' = after.lane_error_ids
    /\ frame_pc' = "returned"
    /\ UNCHANGED << lane_frames, validated_lanes >>
    /\ UNCHANGED << mainVars, dispatchVars, statsVars, laneVars, outputVars,
                    filterVars, triggerVars >>
    /\ UNCHANGED viewVars
    /\ UNCHANGED postVars

NextFrame ==
    \/ AnalyzeLane
    \/ ValidateLaneBcs

SpecFrame == InitFrame /\ [][NextFrame]_vars

\* ------------------------------------------------------------ output mode

\* The views of the view command.
Views == {"Rdh", "Hbf", "ItsReadoutFrames"}

\* The paths -o/--output may name: the word stdout, the same word in
\* capitals, and a file.
OutputPaths == {"stdout", "STDOUT", "out.raw"}

\* The filter options, of which the command line takes at most one.
Filters ==
    { [filter_link |-> << >>, filter_fee |-> << >>, filter_its_stave |-> << >>],
      [filter_link |-> << 0 >>, filter_fee |-> << >>, filter_its_stave |-> << >>],
      [filter_link |-> << >>, filter_fee |-> << 524 >>,
       filter_its_stave |-> << >>],
      [filter_link |-> << >>, filter_fee |-> << >>,
       filter_its_stave |-> << "L0_12" >>] }

\* A filter option is given.
HasFilter(f) ==
    IsSome(f.filter_link) \/ IsSome(f.filter_fee) \/ IsSome(f.filter_its_stave)

\* The options that decide on the output: a view, a filter, and an
\* output path, which the command line takes only with a filter.
OutputConfigs ==
    { [view |-> v, output |-> o, filter_link |-> f.filter_link,
       filter_fee |-> f.filter_fee, filter_its_stave |-> f.filter_its_stave,
       its_trigger_period |-> << >>, any_errors_exit_code |-> << >>,
       input_stats_file |-> << >>, max_tolerate_errors |-> 0] :
         v \in {<< >>} \cup { << w >> : w \in Views },
         o \in {<< >>} \cup { << q >> : q \in OutputPaths },
         f \in Filters }

\* Cfg::check: the check command, if the command is one.
CheckOf(chk) == IF chk.cmd = "NoCheck" THEN << >> ELSE << chk >>

\* Cfg::output_mode
OutputModeOf(chk, cfg) ==
    IF IsSome(cfg.output)
    THEN IF cfg.output[1] = "stdout" THEN "Stdout" ELSE "File"
    ELSE IF IsSome(CheckOf(chk)) \/ IsSome(cfg.view) THEN "None"
    ELSE "Stdout"

\* A configuration as the command line parser hands it over: a check
\* command or a view or neither, and an output path only with a filter.
InitOutput ==
    /\ InitCommon
    /\ LaneIdle
    /\ FrameIdle
    /\ OutputIdle
    /\ FilterIdle
    /\ TriggerIdle
    /\ ViewIdle
    /\ PostIdle
    /\ check \in CheckOptions
    /\ config \in OutputConfigs
    /\ IsSome(config.view) => check.cmd = "NoCheck"
    /\ IsSome(config.output) => HasFilter(config)
    /\ alphabet = RDHs
    /\ limit = 0
    /\ main_pc = "get_config"
    /\ reader_ok = TRUE
    /\ input_len = RDH_SIZE_BYTES
    /\ header_id = 7
    /\ process_result = << >>
    /\ exit_code = << >>

\* A call of Cfg::output_mode.
OutputMode ==
    /\ output_mode = << >>
    /\ output_mode' = << OutputModeOf(check, config) >>
    /\ UNCHANGED payload_skipped
    /\ UNCHANGED << mainVars, dispatchVars, statsVars, laneVars, frameVars,
                    filterVars, triggerVars >>
    /\ UNCHANGED viewVars
    /\ UNCHANGED postVars

\* Cfg::skip_payload: the match over (view, check, output_mode), whose
\* arms look at the view and at the target of the check alone.
skip_payload(chk, cfg) ==
    LET mode == OutputModeOf(chk, cfg)
    IN  IF cfg.view = << "Rdh" >> THEN TRUE
        ELSE IF IsSome(CheckOf(chk)) /\ chk.system = "NoSystem" THEN TRUE
        ELSE FALSE

\* A call of Cfg::skip_payload.
SkipPayload ==
    /\ payload_skipped = << >>
    /\ payload_skipped' = << skip_payload(check, config) >>
    /\ UNCHANGED output_mode
    /\ UNCHANGED << mainVars, dispatchVars, statsVars, laneVars, frameVars,
                    filterVars, triggerVars >>
    /\ UNCHANGED viewVars
    /\ UNCHANGED postVars

NextOutput ==
    \/ OutputMode
    \/ SkipPayload

SpecOutput == InitOutput /\ [][NextOutput]_vars

\* ------------------------------------------------------------ filter mode

\* The most packets the input of a filter run holds.
MaxPackets == 3

\* The fields the model keeps of the 64 bytes of an RDH, one place of the
\* data each, in the order they are laid out.
RdhFields ==
    << "header_id", "fee_id", "link_id", "memory_size", "offset_to_next",
       "stop_bit", "trigger_type" >>

\* The places of the data an RDH takes.
RdhLen == Len(RdhFields)

\* layer(fee_id), stave(fee_id), fiber_uplink(fee_id): the fields of the
\* bit layout {layer:3, reserved:6, fiber_uplink:2, stave_number:5}.
layer(fee_id) == (fee_id \div 8192) % 8

stave(fee_id) == fee_id % 32

fiber_uplink(fee_id) == (fee_id \div 32) % 4

\* The packets a stream is made of: FEE 524 on link 8 opening and closing
\* a CDP, the same stave on another fiber uplink and link, the same stave
\* number on layer 1, a packet with link id 12, and a packet followed by
\* a byte of padding before the next RDH.
FilterPackets ==
    { [fee_id |-> 524, link_id |-> 8, payload |-> << 170 >>,
       padding |-> << >>, stop_bit |-> 0, trigger_type |-> 16],
      [fee_id |-> 524, link_id |-> 8, payload |-> << >>,
       padding |-> << >>, stop_bit |-> 1, trigger_type |-> 0],
      [fee_id |-> 44, link_id |-> 9, payload |-> << 187 >>,
       padding |-> << >>, stop_bit |-> 1, trigger_type |-> 0],
      [fee_id |-> 8204, link_id |-> 8, payload |-> << >>,
       padding |-> << >>, stop_bit |-> 1, trigger_type |-> 0],
      [fee_id |-> 524, link_id |-> 12, payload |-> << 1 >>,
       padding |-> << >>, stop_bit |-> 1, trigger_type |-> 0],
      [fee_id |-> 524, link_id |-> 8, payload |-> << 204 >>,
       padding |-> << 0 >>, stop_bit |-> 1, trigger_type |-> 0] }

\* encode(RDH): the RDH of a packet as it lies in the data.
EncodeRdh(p) ==
    << 7, p.fee_id, p.link_id, RdhLen + Len(p.payload),
       RdhLen + Len(p.payload) + Len(p.padding), p.stop_bit, p.trigger_type >>

\* A packet as it lies in the data: RDH, payload, and what padding
\* there is before offset_to_next.
EncodePacket(p) == EncodeRdh(p) \o p.payload \o p.padding

RECURSIVE EncodeStream(_)
EncodeStream(packets) ==
    IF packets = << >> THEN << >>
    ELSE EncodePacket(Head(packets)) \o EncodeStream(Tail(packets))

\* decode(bytes): the RDH that lies at pos in data.
DecodeRdh(data, pos) ==
    [f \in { RdhFields[i] : i \in 1..RdhLen } |->
        data[pos + (CHOOSE i \in 1..RdhLen : RdhFields[i] = f)]]

\* The stave strings --filter-its-stave is given, letter by letter:
\* L0_12, l0_12 and L3_0.
StaveStrings ==
    { << "L", "0", "_", "1", "2" >>, << "l", "0", "_", "1", "2" >>,
      << "L", "3", "_", "0" >> }

\* char::to_uppercase of the letters that matter here.
ToUpper(ch) == IF ch = "l" THEN "L" ELSE ch

\* The value of a decimal digit.
DigitOf(ch) ==
    CHOOSE n \in 0..9 :
        ch = << "0", "1", "2", "3", "4", "5", "6", "7", "8", "9" >>[n + 1]

RECURSIVE NumberOf(_)
\* The value of a string of decimal digits.
NumberOf(digits) ==
    IF digits = << >> THEN 0
    ELSE 10 * NumberOf(SubSeq(digits, 1, Len(digits) - 1))
            + DigitOf(digits[Len(digits)])

\* layer_stave_string_to_feeid: L<digit>_<1-2 digits>, either case of
\* the letter, packed as {layer, 0, 0, stave}.
layer_stave_string_to_feeid(str) ==
    (DigitOf(str[2]) * 8192) + NumberOf(SubSeq(str, 4, Len(str)))

\* Cfg::filter_its_stave: the FEE ID the stave string stands for.
FilterItsStave(cfg) ==
    IF IsSome(cfg.filter_its_stave)
    THEN IF ToUpper(cfg.filter_its_stave[1][1]) = "L"
         THEN << layer_stave_string_to_feeid(cfg.filter_its_stave[1]) >>
         ELSE << "Panic" >>
    ELSE << >>

\* The configurations of a filter run: one filter option, the output
\* going to a file, no check and no view.
FilterConfigs ==
    { [view |-> << >>, output |-> << "out.raw" >>, filter_link |-> l,
       filter_fee |-> f, filter_its_stave |-> st,
       its_trigger_period |-> << >>, any_errors_exit_code |-> << >>,
       input_stats_file |-> << >>, max_tolerate_errors |-> 0] :
         l \in {<< >>, << 8 >>}, f \in {<< >>, << 524 >>, << 1337 >>},
         st \in {<< >>} \cup { << str >> : str \in StaveStrings } }

\* A faulty stave filter: it compares the whole FEE ID with the FEE ID
\* of the stave string.
SameStaveWholeFeeId(fee_id, target) == fee_id = target

\* The stave filter: layer and stave of the FEE ID are those of the
\* target.
SameStave(fee_id, target) ==
    layer(fee_id) = layer(target) /\ stave(fee_id) = stave(target)

\* The filter predicate: by link, by FEE ID, or by layer and stave.
Passes(cfg, rdh) ==
    IF IsSome(cfg.filter_link) THEN rdh.link_id = cfg.filter_link[1]
    ELSE IF IsSome(cfg.filter_fee) THEN rdh.fee_id = cfg.filter_fee[1]
    ELSE SameStave(rdh.fee_id, FilterItsStave(cfg)[1])

\* The streams of up to MaxPackets packets.
FilterStreams == UNION { [1..n -> FilterPackets] : n \in 0..MaxPackets }

\* The filter options given: the command line takes one of them.
FiltersGiven(cfg) ==
    { o \in {"link", "fee", "stave"} :
        \/ o = "link" /\ IsSome(cfg.filter_link)
        \/ o = "fee" /\ IsSome(cfg.filter_fee)
        \/ o = "stave" /\ IsSome(cfg.filter_its_stave) }

\* A run in filter mode is about to read its input: one filter option,
\* no check, any stream of packets.
InitFilter ==
    /\ InitCommon
    /\ LaneIdle
    /\ FrameIdle
    /\ OutputIdle
    /\ TriggerIdle
    /\ ViewIdle
    /\ PostIdle
    /\ check = [cmd |-> "NoCheck", system |-> "NoSystem"]
    /\ config \in FilterConfigs
    /\ Cardinality(FiltersGiven(config)) = 1
    /\ alphabet = RDHs
    /\ limit = 0
    /\ main_pc = "process"
    /\ reader_ok = TRUE
    /\ input_len = RDH_SIZE_BYTES
    /\ header_id = 7
    /\ process_result = << >>
    /\ exit_code = << >>
    /\ input_packets \in FilterStreams
    /\ input_data = EncodeStream(input_packets)
    /\ read_pos = 0
    /\ output_data = << >>
    /\ filter_stats = [rdhs_seen |-> 0, rdhs_filtered |-> 0, report |-> << >>]
    /\ filter_pc = "scan"

\* A faulty scanner: it writes the RDH of a packet that passes and
\* leaves the payload out.
EmittedRdhOnly(data, pos, rdh) == SubSeq(data, pos + 1, pos + RdhLen)

\* A faulty scanner: it writes everything up to the next RDH, padding
\* included.
EmittedWithPadding(data, pos, rdh) ==
    SubSeq(data, pos + 1, pos + rdh.offset_to_next)

\* What the scanner writes for a packet that passes: the RDH and the
\* memory_size - header_size bytes of payload it read after it.
Emitted(data, pos, rdh) == SubSeq(data, pos + 1, pos + rdh.memory_size)

\* A faulty scanner: it counts an RDH as seen only when it passes.
SeenAfterOnlyPassing(seen, pass) == IF pass THEN seen + 1 ELSE seen

\* The total RDH counter after one more RDH is scanned.
SeenAfter(seen, pass) == seen + 1

\* The scanner reads the RDH at read_pos and its payload, writes both
\* out if the RDH passes the filter, and goes on at offset_to_next.
ScanPacket ==
    /\ filter_pc = "scan"
    /\ read_pos < Len(input_data)
    /\ LET rdh == DecodeRdh(input_data, read_pos)
           pass == Passes(config, rdh)
       IN  /\ output_data' =
                 IF pass THEN output_data \o Emitted(input_data, read_pos, rdh)
                 ELSE output_data
           /\ filter_stats' =
                 [filter_stats EXCEPT
                    !.rdhs_seen = SeenAfter(@, pass),
                    !.rdhs_filtered = IF pass THEN @ + 1 ELSE @]
           /\ read_pos' = read_pos + rdh.offset_to_next
    /\ UNCHANGED << input_packets, input_data, filter_pc >>
    /\ UNCHANGED << mainVars, dispatchVars, statsVars, laneVars, frameVars,
                    outputVars, triggerVars >>
    /\ UNCHANGED viewVars
    /\ UNCHANGED postVars

\* The end of the input: the filtered stats are reported, with `not
\* found` if no RDH passed, and the run ends with exit code 0.
EndOfInput ==
    /\ filter_pc = "scan"
    /\ read_pos >= Len(input_data)
    /\ filter_stats' =
          [filter_stats EXCEPT !.report =
              IF filter_stats.rdhs_filtered = 0 THEN << "not found" >>
              ELSE << "found" >>]
    /\ filter_pc' = "done"
    /\ exit_code' = << 0 >>
    /\ UNCHANGED << main_pc, reader_ok, input_len, header_id, process_result,
                    config, validated >>
    /\ UNCHANGED << input_packets, input_data, read_pos, output_data >>
    /\ UNCHANGED << dispatchVars, statsVars, laneVars, frameVars,
                    outputVars, triggerVars >>
    /\ UNCHANGED viewVars
    /\ UNCHANGED postVars

NextFilter ==
    \/ ScanPacket
    \/ EndOfInput

SpecFilter == InitFilter /\ [][NextFilter]_vars

RECURSIVE ScanFrom(_, _)
\* The RDHs a scanner finds in data from pos on, and whether it ends on
\* data it cannot read as a packet (fatal).
ScanFrom(data, pos) ==
    IF pos >= Len(data) THEN [rdhs |-> << >>, fatal |-> FALSE]
    ELSE IF pos + RdhLen > Len(data) THEN [rdhs |-> << >>, fatal |-> TRUE]
    ELSE LET rdh == DecodeRdh(data, pos)
         IN  IF \/ rdh.header_id # 7
                \/ rdh.memory_size < RdhLen
                \/ rdh.offset_to_next < rdh.memory_size
                \/ pos + rdh.memory_size > Len(data)
             THEN [rdhs |-> << >>, fatal |-> TRUE]
             ELSE LET rest == ScanFrom(data, pos + rdh.offset_to_next)
                  IN  [rdhs |-> << rdh >> \o rest.rdhs, fatal |-> rest.fatal]

\* What `check sanity` reports on a sequence of RDHs: the RDH, HBF and
\* trigger counters and the RDHs with a sanity error (link id above 11).
ResultOver(rdhs, fatal) ==
    [rdhs |-> Len(rdhs),
     hbfs |-> Cardinality({ i \in 1..Len(rdhs) : rdhs[i].stop_bit = 1 }),
     triggers |-> Cardinality({ i \in 1..Len(rdhs) :
                                   rdhs[i].trigger_type = 16 }),
     errors |-> { i \in 1..Len(rdhs) : rdhs[i].link_id > 11 },
     fatal |-> fatal]

\* What an instance running `check sanity` reports on data.
ValidationResult(data) ==
    ResultOver(ScanFrom(data, 0).rdhs, ScanFrom(data, 0).fatal)

\* ---------------------------------------------------------- trigger period

\* The most TDHs of a run on the inspected stave.
MaxTdhs == 3

\* The TDHs of a run: two orbits, bunch crossings a period of 198 apart,
\* and the last bunch crossing of an orbit.
Tdhs == [orbit : {1, 2}, bc : {0, 198, 396, 3563}]

\* The distance of two bunch crossings, |bc - prev_bc| modulo the 3564
\* bunch crossings of an orbit.
PeriodOf(prev, tdh) ==
    (IF tdh.bc >= prev.bc THEN tdh.bc - prev.bc ELSE prev.bc - tdh.bc) % 3564

\* A faulty check: it compares TDHs of different orbits too.
SameOrbitAlways(prev, tdh) == TRUE

\* The two TDHs are of the same orbit.
SameOrbit(prev, tdh) == prev.orbit = tdh.orbit

\* A run of `check all its-stave` on stave L0_12, with or without a
\* trigger period to check, is about to see the TDHs of the stave.
InitTrigger ==
    /\ InitCommon
    /\ main_pc = "process"
    /\ reader_ok = TRUE
    /\ input_len = RDH_SIZE_BYTES
    /\ header_id = 7
    /\ process_result = << >>
    /\ exit_code = << >>
    /\ LaneIdle
    /\ FrameIdle
    /\ OutputIdle
    /\ FilterIdle
    /\ ViewIdle
    /\ PostIdle
    /\ check = [cmd |-> "All", system |-> "ITS_Stave"]
    /\ alphabet = RDHs
    /\ limit = 0
    /\ \E period \in {<< >>, << 0 >>, << 198 >>} :
          config = [DefaultConfig EXCEPT !.its_trigger_period = period,
                                         !.filter_its_stave = << "L0_12" >>]
    /\ tdh_input \in UNION { [1..n -> Tdhs] : n \in 0..MaxTdhs }
    /\ prev_tdh = << >>
    /\ tdhs_checked = << >>
    /\ period_errors = << >>

\* The FSM sees the next TDH: with a trigger period to check and a
\* previous TDH of the same orbit, a distance other than the period is
\* an error; the TDH becomes the previous one.
CheckTdh ==
    /\ tdh_input # << >>
    /\ LET tdh == Head(tdh_input)
           mismatch == /\ IsSome(config.its_trigger_period)
                       /\ IsSome(prev_tdh)
                       /\ SameOrbit(prev_tdh[1], tdh)
                       /\ PeriodOf(prev_tdh[1], tdh)
                             # config.its_trigger_period[1]
       IN  /\ period_errors' =
                 IF mismatch
                 THEN Append(period_errors,
                             [at |-> Len(tdhs_checked) + 1,
                              expected |-> config.its_trigger_period[1],
                              found |-> PeriodOf(prev_tdh[1], tdh)])
                 ELSE period_errors
           /\ prev_tdh' = << tdh >>
           /\ tdhs_checked' = Append(tdhs_checked, tdh)
           /\ tdh_input' = Tail(tdh_input)
    /\ UNCHANGED << mainVars, dispatchVars, statsVars, laneVars, frameVars,
                    outputVars, filterVars >>
    /\ UNCHANGED viewVars
    /\ UNCHANGED postVars

NextTrigger == CheckTdh

SpecTrigger == InitTrigger /\ [][NextTrigger]_vars

\* ------------------------------------------- the dispatcher, used again

\* ValidatorDispatcher::new, for an owner that goes on calling
\* dispatch_cdp_batch after join.
InitReuse ==
    /\ InitCommon
    /\ AnalysisIdle
    /\ InProcess
    /\ check = [cmd |-> "Sanity", system |-> "NoSystem"]
    /\ alphabet = RDHs
    /\ limit = MaxTuples

\* join returns to its caller, who keeps the dispatcher.
JoinReturns ==
    /\ JoinDone
    /\ pc' = "dispatch"
    /\ UNCHANGED mainVars
    /\ UNCHANGED analysisVars
    /\ UNCHANGED << stop_flag, prev_rdh >>
    /\ UNCHANGED << check, alphabet, limit, scanned, cdp_array, processors,
                    process_channels, validator_thread_handles, chan,
                    worker, stats_inbox, stats_senders, stats, stats_pc,
                    dispatched, sent, received, joined, events_sent >>

\* What get_unchecked(index) with index >= len can do: the process
\* crashes, or the call returns with the tuple sent to no worker.
UncheckedOutcomes == {"crashed", "dispatch"}

\* dispatch_by_id, the ID is in the list of processors at an index that
\* process_channels does not have: get_unchecked reads past the end of
\* the vector, which is undefined behaviour.
DispatchUnchecked ==
    /\ pc = "dispatch"
    /\ cdp_array # << >>
    /\ LET t == Head(cdp_array)
           id == DispatchIdOf(check, t.rdh)
           index == TargetIndex(processors, id)
       IN  /\ Position(processors, id) # 0
           /\ index \notin 1..Len(process_channels)
           /\ dispatched' = Append(dispatched, Dispatched(t, id))
    /\ pc' \in UncheckedOutcomes
    /\ cdp_array' = Tail(cdp_array)
    /\ UNCHANGED mainVars
    /\ UNCHANGED analysisVars
    /\ UNCHANGED << stop_flag, prev_rdh >>
    /\ UNCHANGED << check, alphabet, limit, scanned, processors,
                    process_channels, validator_thread_handles, chan,
                    worker, stats_inbox, stats_senders, stats, stats_pc,
                    sent, received, joined, events_sent >>

NextReuse ==
    \/ LoadBatch
    \/ DispatchKnown
    \/ DispatchNew
    \/ DispatchUnchecked
    \/ StartJoin
    \/ JoinDropSender
    \/ JoinCleared
    \/ JoinWorker
    \/ JoinReturns
    \/ \E w \in Workers : WorkerRecv(w)
    \/ \E w \in Workers : WorkerExit(w)

SpecReuse == InitReuse /\ [][NextReuse]_vars

\* -------------------------------------------- workers that may panic

\* ValidatorDispatcher::new on a run in which the validation of a tuple
\* may panic in its worker thread.
InitFailing ==
    /\ InitCommon
    /\ AnalysisIdle
    /\ InProcess
    /\ check = [cmd |-> "All", system |-> "ITS_Stave"]
    /\ alphabet = RDHs
    /\ limit = MaxTuples

\* LinkValidator::run, a check panics on the tuple just received: the
\* thread unwinds and drops its receiver and its clone of the stats
\* sender.
WorkerPanics(w) ==
    /\ worker[w] = "running"
    /\ chan[w].queue # << >>
    /\ received' = [received EXCEPT ![w] = Append(@, Head(chan[w].queue))]
    /\ worker' = [worker EXCEPT ![w] = "panicked"]
    /\ chan' = [chan EXCEPT ![w].queue = Tail(@), ![w].receiver = FALSE]
    /\ stats_senders' = stats_senders \ {w}
    /\ UNCHANGED mainVars
    /\ UNCHANGED analysisVars
    /\ UNCHANGED << stop_flag, prev_rdh >>
    /\ UNCHANGED << check, alphabet, limit, scanned, cdp_array, processors,
                    process_channels, validator_thread_handles, pc,
                    stats_inbox, stats, stats_pc, dispatched, sent, joined,
                    events_sent >>

\* A faulty dispatch_by_id: the result of send is dropped and the
\* dispatcher goes on.
AfterSendErrIgnored == "dispatch"

\* send(..).unwrap() on an Err: the dispatcher panics.
AfterSendErr == "panicked"

\* dispatch_by_id, the ID already in the list of processors and the
\* receiver of its channel dropped: send returns Err, with or without
\* room in the channel, and the tuple is not queued.
DispatchSendFails ==
    /\ pc = "dispatch"
    /\ cdp_array # << >>
    /\ LET t == Head(cdp_array)
           id == DispatchIdOf(check, t.rdh)
           index == TargetIndex(processors, id)
       IN  /\ Position(processors, id) # 0
           /\ index \in 1..Len(process_channels)
           /\ ~chan[process_channels[index]].receiver
           /\ dispatched' = Append(dispatched, Dispatched(t, id))
    /\ pc' = AfterSendErr
    /\ cdp_array' = Tail(cdp_array)
    /\ UNCHANGED mainVars
    /\ UNCHANGED analysisVars
    /\ UNCHANGED << stop_flag, prev_rdh >>
    /\ UNCHANGED << check, alphabet, limit, scanned, processors,
                    process_channels, validator_thread_handles, chan,
                    worker, stats_inbox, stats_senders, stats, stats_pc,
                    sent, received, joined, events_sent >>

\* A faulty join: the result of handle.join() is dropped.
AfterJoinErrIgnored == "drain"

\* handle.join().expect(..) on the Err of a thread that panicked: the
\* dispatcher panics.
AfterJoinErr == "panicked"

\* join, handle.join() on the handle of a thread that has panicked.
JoinPanicked ==
    /\ JoinMayWait
    /\ validator_thread_handles # << >>
    /\ LET h == NextHandle(validator_thread_handles)
       IN  /\ worker[h] = "panicked"
           /\ joined' = Append(joined, h)
           /\ validator_thread_handles' =
                 SelectSeq(validator_thread_handles, LAMBDA x : x # h)
    /\ pc' = AfterJoinErr
    /\ UNCHANGED mainVars
    /\ UNCHANGED analysisVars
    /\ UNCHANGED << stop_flag, prev_rdh >>
    /\ UNCHANGED << check, alphabet, limit, scanned, cdp_array, processors,
                    process_channels, chan, worker, stats_inbox,
                    stats_senders, stats, stats_pc, dispatched, sent,
                    received, events_sent >>

NextFailing ==
    \/ LoadBatch
    \/ DispatchKnown
    \/ DispatchNew
    \/ DispatchSendFails
    \/ StartJoin
    \/ JoinDropSender
    \/ JoinCleared
    \/ JoinWorker
    \/ JoinPanicked
    \/ Finish
    \/ \E w \in Workers : WorkerRecv(w)
    \/ \E w \in Workers : WorkerExit(w)
    \/ \E w \in Workers : WorkerPanics(w)

SpecFailing == InitFailing /\ [][NextFailing]_vars

\* ------------------------------------------------ the end of a run

\* A faulty return of init_processing: a clone of the stats sender
\* outlives it.
SendersAfterReturnKept(senders) == senders

\* The senders of the stats channel left when init_processing returns:
\* its own stat_send_channel and the clones it gave to the scanner and
\* to fastpasta::process go out of scope.
SendersAfterReturn(senders) == senders \ {0}

\* init_processing, fastpasta::process returns once the dispatcher has
\* joined its workers: Ok gives exit code 0, Err is reported as Fatal and
\* gives exit code 2, and init_processing returns.
ProcessEnds ==
    /\ main_pc = "process"
    /\ JoinDone
    /\ \E r \in {"Ok", "Err"} :
          /\ process_result' = << r >>
          /\ IF r = "Ok"
                THEN /\ exit_code' = << ExitCodeOf("process_ok") >>
                     /\ UNCHANGED << stats_inbox, events_sent >>
                ELSE /\ SendStat(Fatal)
                     /\ exit_code' = << ExitCodeOf("process_err") >>
    /\ pc' = "done"
    /\ stats_senders' = SendersAfterReturn(stats_senders)
    /\ main_pc' = "join_stats"
    /\ UNCHANGED << config, validated >>
    /\ UNCHANGED analysisVars
    /\ UNCHANGED << reader_ok, input_len, header_id >>
    /\ UNCHANGED << stats, stats_pc, stop_flag, prev_rdh >>
    /\ UNCHANGED << check, alphabet, limit, scanned, cdp_array, processors,
                    process_channels, validator_thread_handles, chan,
                    worker, dispatched, sent, received, joined >>

\* Runs from the start of main() under `check sanity`.
InitShutdown ==
    InitRunOver({[cmd |-> "Sanity", system |-> "NoSystem"]},
                {DefaultConfig}, RDHs)

\* The steps of the main thread from init_reader to its return.
MainShutdownStep ==
    \/ InitReaderErr
    \/ InitReaderOk
    \/ LoadRdh0
    \/ MatchVersion
    \/ LoadBatch
    \/ DispatchKnown
    \/ DispatchNew
    \/ StartJoin
    \/ JoinDropSender
    \/ JoinCleared
    \/ JoinWorker
    \/ ProcessEnds
    \/ JoinStats

NextShutdown ==
    \/ InitReaderErr
    \/ InitReaderOk
    \/ LoadRdh0
    \/ MatchVersion
    \/ LoadBatch
    \/ DispatchKnown
    \/ DispatchNew
    \/ StartJoin
    \/ JoinDropSender
    \/ JoinCleared
    \/ JoinWorker
    \/ ProcessEnds
    \/ JoinStats
    \/ \E w \in Workers : WorkerRecv(w)
    \/ \E w \in Workers : WorkerExit(w)
    \/ StatsRecv
    \/ StatsExit

SpecShutdown == InitShutdown /\ [][NextShutdown]_vars

\* Every thread that can take a step eventually takes one.
FairnessShutdown ==
    /\ WF_vars(MainShutdownStep)
    /\ \A w \in WorkerIds : WF_vars(WorkerStep(w))
    /\ WF_vars(StatsStep)

FairSpecShutdown == SpecShutdown /\ FairnessShutdown

\* ------------------------------------------------------------ the RDH view

\* The most CdpArrays a run hands to the view.
MaxChunks == 2

\* The memory positions of the RDHs of a stream: the start of the file,
\* positions of one, two and four hexadecimal digits, and the largest
\* position of eight digits.
ViewOffsets == {0, 10, 255, 43981, 2147483647}

HexChars ==
    << "0", "1", "2", "3", "4", "5", "6", "7", "8", "9",
       "A", "B", "C", "D", "E", "F" >>

RECURSIVE UpperHex(_)
\* {:X}: the digits of n to base 16, capitals, no leading zero.
UpperHex(n) ==
    IF n < 16 THEN << HexChars[n + 1] >>
    ELSE Append(UpperHex(n \div 16), HexChars[(n % 16) + 1])

\* {:>8}: text moved to the right of a field of 8, filled with blanks; a
\* longer text is left as it is.
RightAligned8(text) ==
    [i \in 1..(8 - Len(text)) |-> " "] \o text

\* The header row of the view.
HeaderRow == [kind |-> "header", mem_pos |-> << >>, rdh |-> << >>]

\* writeln!(stdio_lock, "{mem_pos:>8X}:       {rdh}")
RdhLine(t) ==
    [kind |-> "rdh", mem_pos |-> RightAligned8(UpperHex(t.mem_pos)),
     rdh |-> << t.rdh >>]

\* rdh_view: what it writes for one CdpArray.
rdh_view(array) ==
    << HeaderRow >> \o [i \in 1..Len(array) |-> RdhLine(array[i])]

\* The RDH at each memory position.
RdhAt(mem_pos) ==
    CHOOSE rdh \in RDHs : rdh.link_id = (mem_pos % 2) /\ rdh.ok

\* The streams of a run: one RDH or more, at rising memory positions.
ViewStreams ==
    { SelectSeq(<< 0, 10, 255, 43981, 2147483647 >>, LAMBDA o : o \in S) :
         S \in (SUBSET ViewOffsets) \ {{}} }

\* The ways the scanner may cut a stream into at most MaxChunks
\* CdpArrays of 1 to MaxBatch tuples.
Chunkings(stream) ==
    { c \in UNION { [1..k -> 1..MaxBatch] : k \in 1..MaxChunks } :
         LET RECURSIVE Sum(_)
             Sum(i) == IF i = 0 THEN 0 ELSE c[i] + Sum(i - 1)
         IN  Sum(Len(c)) = Len(stream) }

\* The CdpArrays of a stream cut as sizes says.
ChunksOf(stream, sizes) ==
    LET RECURSIVE Before(_)
        Before(i) == IF i = 0 THEN 0 ELSE sizes[i] + Before(i - 1)
    IN  [k \in 1..Len(sizes) |->
            [i \in 1..sizes[k] |->
                CdpTuple(RdhAt(stream[Before(k - 1) + i]),
                         stream[Before(k - 1) + i])]]

\* A run of `view rdh`: the scanner is about to hand over the CdpArrays
\* of a stream, nothing is written yet.
InitView ==
    /\ InitCommon
    /\ InProcess
    /\ LaneIdle
    /\ FrameIdle
    /\ OutputIdle
    /\ FilterIdle
    /\ TriggerIdle
    /\ PostIdle
    /\ check = [cmd |-> "NoCheck", system |-> "NoSystem"]
    /\ alphabet = RDHs
    /\ limit = 0
    /\ \E stream \in ViewStreams :
          \E sizes \in Chunkings(stream) :
             view_stream = ChunksOf(stream, sizes)
    /\ view_out = << >>
    /\ view_pc = "scan"

\* The scanner hands over the next CdpArray of the stream.
NextChunk ==
    /\ view_pc = "scan"
    /\ scanned < Len(view_stream)
    /\ cdp_array' = view_stream[scanned + 1]
    /\ scanned' = scanned + 1
    /\ view_pc' = "view"
    /\ UNCHANGED << view_stream, view_out >>
    /\ UNCHANGED mainVars
    /\ UNCHANGED << laneVars, frameVars, outputVars, filterVars, triggerVars >>
    /\ UNCHANGED postVars
    /\ UNCHANGED << stop_flag, prev_rdh >>
    /\ UNCHANGED << check, alphabet, limit, processors, process_channels,
                    validator_thread_handles, chan, worker, pc, stats_inbox,
                    stats_senders, stats, stats_pc, dispatched, sent,
                    received, joined, events_sent >>

\* A call of rdh_view on the CdpArray, which it borrows.
RdhView ==
    /\ view_pc = "view"
    /\ view_out' = view_out \o rdh_view(cdp_array)
    /\ view_pc' = "viewed"
    /\ UNCHANGED << view_stream, cdp_array, scanned >>
    /\ UNCHANGED mainVars
    /\ UNCHANGED << laneVars, frameVars, outputVars, filterVars, triggerVars >>
    /\ UNCHANGED postVars
    /\ UNCHANGED << stop_flag, prev_rdh >>
    /\ UNCHANGED << check, alphabet, limit, processors, process_channels,
                    validator_thread_handles, chan, worker, pc, stats_inbox,
                    stats_senders, stats, stats_pc, dispatched, sent,
                    received, joined, events_sent >>

\* The CdpArray goes out of scope and the scanner reads on.
ChunkDone ==
    /\ view_pc = "viewed"
    /\ cdp_array' = << >>
    /\ view_pc' = "scan"
    /\ UNCHANGED << view_stream, view_out, scanned >>
    /\ UNCHANGED mainVars
    /\ UNCHANGED << laneVars, frameVars, outputVars, filterVars, triggerVars >>
    /\ UNCHANGED postVars
    /\ UNCHANGED << stop_flag, prev_rdh >>
    /\ UNCHANGED << check, alphabet, limit, processors, process_channels,
                    validator_thread_handles, chan, worker, pc, stats_inbox,
                    stats_senders, stats, stats_pc, dispatched, sent,
                    received, joined, events_sent >>

NextView ==
    \/ NextChunk
    \/ RdhView
    \/ ChunkDone

SpecView == InitView /\ [][NextView]_vars

\* ------------------------------------------- the comparisons after the run

\* The largest value of a counter.
MaxCount == 1

\* The counters of a stats snapshot that are compared, in the order of
\* the comparison.
CounterNames == << "rdhs_seen", "cdps", "triggers_pht" >>

\* The names of the expected values of a checks file.
CheckNames == << "cdps", "triggers_pht" >>

\* The counters a run may end with, also the snapshots --output-stats writes.
Snapshots == [{"rdhs_seen", "cdps", "triggers_pht"} -> 0..MaxCount]

\* Counters: each expected value is an Option<u32>.
Counters ==
    [{"cdps", "triggers_pht"} -> {<< >>} \cup {<< v >> : v \in 0..MaxCount}]

\* The error of a counter that is not the expected one.
Mismatch(source, name, expected, found) ==
    [source |-> source, counter |-> name, expected |-> expected,
     found |-> found]

\* A faulty ExpectedIs: the value the assertion compares with is ignored.
ExpectedIsAlways(expected, found) == TRUE

\* The equality assertion of one expected value.
ExpectedIs(expected, found) == found = expected

\* The errors of comparing the counters named, in order, with a snapshot.
RECURSIVE CompareWithSnapshot(_, _, _)
CompareWithSnapshot(found, snapshot, k) ==
    IF k = 0 THEN << >>
    ELSE LET name == CounterNames[k]
             before == CompareWithSnapshot(found, snapshot, k - 1)
         IN  IF ExpectedIs(snapshot[name], found[name]) THEN before
             ELSE Append(before,
                         Mismatch("input_stats", name, snapshot[name],
                                  found[name]))

\* The errors of the assertions of a checks file: one per expected value
\* that is present and differs from the counter, none for an absent one.
RECURSIVE CustomCheckErrors(_, _, _)
CustomCheckErrors(found, checks, k) ==
    IF k = 0 THEN << >>
    ELSE LET name == CheckNames[k]
             before == CustomCheckErrors(found, checks, k - 1)
         IN  IF ~IsSome(checks[name]) THEN before
             ELSE IF ExpectedIs(checks[name][1], found[name]) THEN before
             ELSE Append(before,
                         Mismatch("custom_checks", name, checks[name][1],
                                  found[name]))

\* The end of a run without validation errors: fastpasta::process is about
\* to return and the stats thread holds the counters of the run.
InitPost ==
    /\ InitCommon
    /\ LaneIdle
    /\ FrameIdle
    /\ OutputIdle
    /\ FilterIdle
    /\ TriggerIdle
    /\ ViewIdle
    /\ check = [cmd |-> "Sanity", system |-> "NoSystem"]
    /\ alphabet = RDHs
    /\ limit = 0
    /\ main_pc = "process"
    /\ reader_ok = TRUE
    /\ input_len = RDH_SIZE_BYTES
    /\ header_id = 7
    /\ process_result = << >>
    /\ exit_code = << >>
    /\ config \in {DefaultConfig,
                   [DefaultConfig EXCEPT !.any_errors_exit_code = << 123 >>]}
    /\ observed \in {<< o >> : o \in Snapshots}
    /\ input_stats \in {<< >>} \cup {<< e >> : e \in Snapshots}
    /\ custom_checks \in {<< c >> : c \in Counters}
    /\ post_errors = << >>
    /\ post_pc = "run_over"

\* The stats thread compares the counters of the run with the snapshot of
\* --input-stats, if one is given, and counts the errors.
ValidateInputStats ==
    /\ post_pc = "run_over"
    /\ stats_pc = "running"
    /\ stats_inbox = << >>
    /\ stats_senders = {}
    /\ LET errors ==
               IF IsSome(input_stats)
                  THEN CompareWithSnapshot(observed[1], input_stats[1],
                                            Len(CounterNames))
                  ELSE << >>
       IN  /\ post_errors' = post_errors \o errors
           /\ stats' = [stats EXCEPT !.err_count = @ + Len(errors)]
    /\ post_pc' = "compared"
    /\ UNCHANGED << observed, input_stats, custom_checks >>
    /\ UNCHANGED mainVars
    /\ UNCHANGED dispatchVars
    /\ UNCHANGED << laneVars, frameVars, outputVars, filterVars, triggerVars,
                    viewVars >>
    /\ UNCHANGED << stats_inbox, stats_senders, stats_pc, events_sent,
                    stop_flag >>

\* The stats thread makes the assertions of the checks file and counts the
\* errors.
DoCustomChecks ==
    /\ post_pc = "compared"
    /\ LET errors == CustomCheckErrors(observed[1], custom_checks[1],
                                      Len(CheckNames))
       IN  /\ post_errors' = post_errors \o errors
           /\ stats' = [stats EXCEPT !.err_count = @ + Len(errors)]
    /\ post_pc' = "checked"
    /\ UNCHANGED << observed, input_stats, custom_checks >>
    /\ UNCHANGED mainVars
    /\ UNCHANGED dispatchVars
    /\ UNCHANGED << laneVars, frameVars, outputVars, filterVars, triggerVars,
                    viewVars >>
    /\ UNCHANGED << stats_inbox, stats_senders, stats_pc, events_sent,
                    stop_flag >>

\* The stats thread returns.
StatsReturns ==
    /\ post_pc = "checked"
    /\ stats_pc = "running"
    /\ stats_pc' = "exited"
    /\ post_pc' = "returned"
    /\ UNCHANGED << observed, input_stats, custom_checks, post_errors >>
    /\ UNCHANGED mainVars
    /\ UNCHANGED dispatchVars
    /\ UNCHANGED << laneVars, frameVars, outputVars, filterVars, triggerVars,
                    viewVars >>
    /\ UNCHANGED << stats_inbox, stats_senders, stats, events_sent,
                    stop_flag >>

\* main at the end of such a run: fastpasta::process returns, the stats
\* thread takes what is left in its inbox, compares and returns, and main
\* joins it.
NextPost ==
    \/ ProcessReturns
    \/ StatsRecv
    \/ ValidateInputStats
    \/ DoCustomChecks
    \/ StatsReturns
    \/ JoinStats

SpecPost == InitPost /\ [][NextPost]_vars

\* ------------------------------------------------------------------ claims

Last(seq) == seq[Len(seq)]

Count(seq, kind) == Len(SelectSeq(seq, LAMBDA e : e.kind = kind))

\* The tuples of a history, without what the history adds to them.
TuplesOf(seq) == [i \in 1..Len(seq) |-> CdpTuple(seq[i].rdh, seq[i].mem_pos)]

\* C1: every tuple handed to the dispatcher is dispatched by the full
\* fee_id of its RDH exactly under `check all its-stave`, which is exactly
\* when alpide_checks_enabled() holds, and by its link_id as a u16 under
\* every other configuration.
C1_DispatchIdBySystem ==
    /\ alpide_checks_enabled(check)
          <=> check = [cmd |-> "All", system |-> "ITS_Stave"]
    /\ \A i \in 1..Len(dispatched) :
          LET d == dispatched[i]
          IN  IF check.cmd = "All" /\ check.system = "ITS_Stave"
                 THEN d.id = d.rdh.fee_id
                 ELSE d.id = d.rdh.link_id /\ d.id \in 0..65535

\* C1 witness: under `check all its-stave` two RDHs of one link have been
\* dispatched under different ids.
C1_Witness ==
    /\ check = [cmd |-> "All", system |-> "ITS_Stave"]
    /\ \E i, j \in 1..Len(dispatched) :
          /\ dispatched[i].rdh.link_id = dispatched[j].rdh.link_id
          /\ dispatched[i].id # dispatched[j].id

\* C2: every tuple given to the dispatcher has been sent exactly once, on
\* the channel of the one worker that owns its DispatchId; nothing else was
\* sent, nothing is lost in a channel, and no DispatchId has two workers.
C2_ExactlyOneChannel ==
    /\ Len(processors) = Len(worker)
    /\ \A v, w \in Workers : processors[v] = processors[w] => v = w
    /\ \A i \in 1..Len(dispatched) :
          LET d == dispatched[i]
              t == CdpTuple(d.rdh, d.mem_pos)
              at == {<< w, k >> \in Workers \X (1..Len(dispatched)) :
                        k <= Len(sent[w]) /\ sent[w][k] = t}
          IN  /\ Cardinality(at) = 1
              /\ \A x \in at : processors[x[1]] = d.id
    /\ \A w \in Workers :
          /\ \A k \in 1..Len(sent[w]) :
                \E i \in 1..Len(dispatched) :
                   TuplesOf(dispatched)[i] = sent[w][k]
          /\ sent[w] = received[w] \o chan[w].queue

\* C2 witness: three tuples were dispatched to two workers, one of which
\* was sent two of them.
C2_Witness ==
    /\ Len(dispatched) = 3
    /\ Len(worker) = 2
    /\ \E w \in Workers : Len(sent[w]) = 2

\* C3: what a worker has received is, in order, the first tuples of its
\* DispatchId that the dispatcher was given.
C3_PerWorkerFifo ==
    \A w \in Workers :
       LET mine == SelectSeq(dispatched, LAMBDA d : d.id = processors[w])
       IN  /\ Len(received[w]) <= Len(mine)
           /\ received[w] = SubSeq(TuplesOf(mine), 1, Len(received[w]))

\* C3 witness: a worker has received two tuples between which the
\* dispatcher sent a tuple to another worker.
C3_Witness ==
    \E v, w \in Workers :
       /\ v # w
       /\ Len(received[w]) >= 2
       /\ \E k \in 1..Len(sent[v]) :
             /\ received[w][1].mem_pos < sent[v][k].mem_pos
             /\ sent[v][k].mem_pos < received[w][2].mem_pos

\* C6: a thread is joined only when every sender has been dropped, and the
\* threads are joined in the order in which they were spawned, none being
\* passed over.
C6_DropThenJoinInOrder ==
    /\ joined # << >> =>
          /\ process_channels = << >>
          /\ \A w \in Workers : chan[w].senders = 0
    /\ \A i \in 1..Len(joined) :
          /\ joined[i] \in Workers
          /\ Cardinality({w \in Workers :
                 sent[w][1].mem_pos < sent[joined[i]][1].mem_pos}) = i - 1

\* C6 witness: two threads have been joined.
C6_Witness == Len(joined) >= 2

\* A worker that has exited has received, and reported on, every tuple that
\* was sent to it.
WorkersDrained ==
    \A w \in Workers :
       worker[w] = "exited" =>
          /\ received[w] = sent[w]
          /\ chan[w].queue = << >>
          /\ \A k \in 1..Len(sent[w]) :
                ~sent[w][k].rdh.ok =>
                   \E e \in 1..Len(events_sent) :
                      events_sent[e] = ErrorAt(sent[w][k].mem_pos)

\* Every worker thread has exited and join has returned.
Terminated ==
    /\ pc = "done"
    /\ \A w \in Workers : worker[w] = "exited"
    /\ Len(joined) = Len(worker)

\* C7: a worker exits only after validating everything that was enqueued
\* for it, and dispatching followed by join always terminates with every
\* worker exited.
C7_DrainAndTerminate == []WorkersDrained /\ <>Terminated

\* C7 witness: the senders are closed while a worker still has an
\* erroneous RDH queued.
C7_Witness ==
    /\ pc = "drain"
    /\ \E w \in Workers :
          /\ worker[w] = "running"
          /\ chan[w].senders = 0
          /\ \E k \in 1..Len(chan[w].queue) : ~chan[w].queue[k].rdh.ok

\* C8: every event sent is either applied once or still in the inbox, and
\* when the stats thread ends the RDH count is the number of RDHs of the
\* stream and the error count the number of errors reported.
C8_StatsExact ==
    /\ stats.rdhs_seen + Count(stats_inbox, "RdhSeen")
          = Count(events_sent, "RdhSeen")
    /\ stats.err_count + Count(stats_inbox, "Error")
          = Count(events_sent, "Error")
    /\ Count(events_sent, "RdhSeen") = scanned
    /\ stats_pc = "exited" =>
          /\ stats_inbox = << >>
          /\ stats.rdhs_seen = scanned
          /\ stats.rdhs_seen = Len(dispatched)
          /\ stats.err_count
                = Len(SelectSeq(dispatched, LAMBDA d : ~d.rdh.ok))

\* C8 witness: the run has ended with events of the scanner and of two
\* workers counted.
C8_Witness ==
    /\ stats_pc = "exited"
    /\ stats.rdhs_seen >= 3
    /\ stats.err_count >= 1
    /\ Len(worker) >= 2

\* The capacity the n-th spawned worker's channel has by the schedule
\* 128, 256, 512, ... capped at 16384.
DoublingCapacity(n) ==
    IF n = 1 THEN 128
    ELSE IF n - 1 >= 7 THEN 16384
    ELSE 128 * Pow2(n - 1)

\* C4: init_validator never panics and the n-th channel it creates has
\* capacity 128 for n = 1 and min(128 << (n-1), 128 << 7) for n >= 2.
C4_DoublingSchedule ==
    /\ pc # "panicked"
    /\ \A n \in 1..Len(chan) : chan[n].cap = DoublingCapacity(n)

\* The main thread waits in a send: the next tuple of the batch belongs to
\* a known worker whose channel holds as many tuples as its capacity.
Blocked ==
    /\ pc = "dispatch"
    /\ cdp_array # << >>
    /\ LET index == Position(processors,
                             DispatchIdOf(check, Head(cdp_array).rdh))
       IN  /\ index # 0
           /\ Len(chan[index].queue) >= chan[index].cap

\* No channel holds more tuples than its capacity.
ChannelsBounded ==
    \A w \in Workers : Len(chan[w].queue) <= chan[w].cap

\* The batch being dispatched changes only by its first tuple being put
\* at the end of a queue that had room for it.
TupleEnqueuedOrKept ==
    (cdp_array # << >> /\ cdp_array' # cdp_array) =>
        /\ cdp_array' = Tail(cdp_array)
        /\ \E w \in 1..Len(chan') :
              /\ Last(chan'[w].queue) = Head(cdp_array)
              /\ Last(sent'[w]) = Head(cdp_array)
              /\ Len(sent'[w]) = (IF w <= Len(sent) THEN Len(sent[w]) ELSE 0) + 1
              /\ w <= Len(chan) => Len(chan[w].queue) < chan[w].cap

\* C5: no channel ever holds more than its capacity; a tuple that finds
\* its channel full stays first in the batch until it is enqueued, and it
\* is enqueued: the batch it belongs to is dispatched to the end.
C5_Backpressure ==
    /\ []ChannelsBounded
    /\ [][TupleEnqueuedOrKept]_vars
    /\ (Blocked ~> cdp_array = << >>)

\* C5 witness: a worker was sent more tuples than its channel holds and
\* the channel is full again, the main thread waiting with the next tuple.
C5_Witness ==
    /\ Blocked
    /\ \E w \in Workers :
          /\ Len(sent[w]) > chan[w].cap
          /\ Len(chan[w].queue) = chan[w].cap

\* main() has ended, by returning or by a panic of the main thread.
MainEnded == main_pc \in {"exited", "panicked"}

\* A first RDH was read: its version was reported.
FirstRdhRead ==
    \E e \in 1..Len(events_sent) : events_sent[e].kind = "RdhVersion"

FatalSent == \E e \in 1..Len(events_sent) : events_sent[e] = Fatal

\* C9: the exit code is 1 exactly when the reader could not be
\* initialised, 3 exactly when a first RDH was read whose header_id is
\* neither 6 nor 7, 2 exactly when process returned an error and 0 when it
\* returned Ok; a non-zero code of these is set only after a Fatal event
\* was sent, and the stats thread has applied it when main returns.
C9_ExitCodes ==
    /\ exit_code \in {<< 1 >>, << 2 >>, << 3 >>} => FatalSent
    /\ MainEnded =>
          /\ exit_code = << 1 >> <=> ~reader_ok
          /\ exit_code = << 3 >>
                <=> (reader_ok /\ FirstRdhRead /\ header_id \notin {6, 7})
          /\ exit_code = << 2 >> <=> process_result = << "Err" >>
          /\ process_result = << "Ok" >> => exit_code = << 0 >>
          /\ (main_pc = "exited" /\ exit_code # << 0 >>) => stats.fatal

\* C9 witness: main has returned exit code 3 for an unknown RDH version.
C9_Witness ==
    /\ main_pc = "exited"
    /\ exit_code = << 3 >>
    /\ header_id = 8
    /\ stats.fatal

\* C10: an input of 1 to 63 bytes ends the run with a Fatal event sent to
\* the stats thread and exit code 1.
C10_TruncatedFirstRdh ==
    (MainEnded /\ reader_ok /\ input_len \in 1..(RDH_SIZE_BYTES - 1)) =>
        /\ exit_code = << 1 >>
        /\ FatalSent

\* validate_args has answered.
ArgsValidated == IsSome(validated)

CheckAllItsStave == [cmd |-> "All", system |-> "ITS_Stave"]
CheckSanityItsStave == [cmd |-> "Sanity", system |-> "ITS_Stave"]

\* C14: validate_args accepts a configuration with an ITS trigger period
\* only when the check command is `check all its-stave`; with a trigger
\* period it returns Err for no check, for `check sanity` with any target
\* and for `check all` with no target or with target ITS.
C14_TriggerPeriodOnlyAllItsStave ==
    (ArgsValidated /\ IsSome(config.its_trigger_period)
        /\ check # CheckAllItsStave)
    => IsErr(validated[1].result)

\* C15: validate_args returns Err for every configuration whose check
\* command is `check sanity its-stave`, whatever the other options.
C15_SanityItsStaveRejected ==
    (ArgsValidated /\ check = CheckSanityItsStave)
    => IsErr(validated[1].result)

\* C16: `check all its-stave` without a stave filter, and without any
\* other option, is a valid configuration: validate_args returns Ok.
C16_AllItsStaveNeedsNoFilter ==
    (ArgsValidated /\ check = CheckAllItsStave /\ config = DefaultConfig)
    => ~IsErr(validated[1].result)

\* The same three statements of Config::validate_args of the config crate
\* alone: there they hold.
ConfigCrateValidateArgs ==
    (ArgsValidated /\ validated[1].by = "config")
    => /\ C14_TriggerPeriodOnlyAllItsStave
       /\ C15_SanityItsStaveRejected
       /\ C16_AllItsStaveNeedsNoFilter


\* C11: for an empty input (zero RDHs) the process exits with code 0 and
\* every counter of the final statistics is 0.
C11_EmptyInput ==
    (MainEnded /\ reader_ok /\ input_len = 0)
    => /\ exit_code = << 0 >>
       /\ stats.rdhs_seen = 0
       /\ stats.err_count = 0

\* A configuration that one of the two validate_args rejects.
RejectedConfig ==
    \/ IsErr(validate_args(check, config))
    \/ IsErr(util_validate_args(check, config))

\* init_reader has returned an open reader.
ReaderOpened == reader_ok /\ main_pc # "init_reader"

\* C13: a configuration that validate_args rejects prevents the run from
\* starting: the input reader is not opened, no byte of input is read
\* and no worker is spawned.
C13_RejectedBeforeAnyIo ==
    RejectedConfig
    => /\ ~ReaderOpened
       /\ ~FirstRdhRead
       /\ worker = << >>

\* main() has returned.
MainReturned == main_pc = "exited"

\* C12: non-fatal errors change the exit code only through -E: with -E c
\* the process exits with c if and only if at least one error was counted
\* and with 0 when none was; without -E it exits with 0 however many
\* non-fatal errors were reported.
C12_AnyErrorsExitCode ==
    (MainReturned /\ ~FatalSent)
    => exit_code =
          << IF IsSome(config.any_errors_exit_code) /\ stats.err_count > 0
                 THEN config.any_errors_exit_code[1]
                 ELSE 0 >>

StatsUpToDate == stats_inbox = << >>

\* The run has ended as a run without fatal error does: main has returned
\* 0, every worker has validated all it was sent, and the stats thread
\* has counted every RDH scanned and every error reported.
CompletedNormally ==
    /\ MainReturned
    /\ exit_code = << 0 >>
    /\ ~FatalSent
    /\ \A w \in Workers : received[w] = sent[w]
    /\ stats.rdhs_seen = scanned
    /\ stats.err_count = Count(events_sent, "Error")

\* C18: a validation error is not fatal: once processing has begun, and
\* the error quota being off, the run completes normally whatever errors
\* the workers report: each worker validates every RDH sent to it, those
\* after an erroneous one included, and every RDH of the stream is counted.
C18_ErrorsNotFatal == (main_pc = "process") ~> CompletedNormally

\* A completed run in which a worker has validated an RDH after one it
\* reported an error for.
C18_Witness ==
    /\ CompletedNormally
    /\ \E w \in Workers :
          /\ Len(received[w]) >= 2
          /\ ~received[w][1].rdh.ok
    /\ stats.err_count >= 1

\* The condition of a page sequence error, RDH r coming after RDH p.
PageViolation(p, r) ==
    \/ p.stop_bit = 1 /\ r.pages_counter # 0
    \/ p.stop_bit = 0 /\ r.pages_counter # p.pages_counter + 1

\* The tuples of the stream before t that Same relates to t.
Before(t, Same(_, _)) ==
    {d \in {dispatched[i] : i \in 1..Len(dispatched)} :
        d.mem_pos < t.mem_pos /\ Same(d.rdh, t.rdh)}

\* The latest of a non-empty set of tuples.
Latest(ds) == CHOOSE d \in ds : \A e \in ds : e.mem_pos <= d.mem_pos

\* The page sequence errors reported with memory position mem_pos.
PageErrors(mem_pos) ==
    Len(SelectSeq(events_sent, LAMBDA e : e = PageErrorAt(mem_pos)))

\* Under `check all`, every validated RDH that has a predecessor by Same
\* got exactly one page sequence error, with its own memory position, if
\* it violates the rule against that predecessor, and none otherwise.
PageErrorsExact(Same(_, _)) ==
    check.cmd = "All" =>
        \A w \in Workers : \A k \in 1..Len(received[w]) :
            LET t == received[w][k]
                ps == Before(t, Same)
            IN  ps # {} =>
                    PageErrors(t.mem_pos) =
                        IF PageViolation(Latest(ps).rdh, t.rdh) THEN 1 ELSE 0

SameLink(p, r) == p.link_id = r.link_id

SameDispatchId(p, r) == DispatchIdOf(check, p) = DispatchIdOf(check, r)

\* C19: under `check all`, for each RDH r that follows an RDH p on the
\* same link, exactly one page sequence error, with r's memory
\* position, is reported if and only if r violates the rule against p.
C19_PageErrorsPerLink == PageErrorsExact(SameLink)

\* C19 with p the previous RDH of the same DispatchId (of the same link,
\* and under `check all its-stave` of the same FEE ID): under `check all`,
\* exactly one page sequence error, with r's memory position, is reported
\* if and only if r violates the rule against p.
C19_PageErrorsPerDispatchId == PageErrorsExact(SameDispatchId)

\* Under `check all its-stave` an RDH was validated after one of another
\* FEE ID of its link, and under `check all` a violating RDH was reported.
C19_Witness ==
    /\ check.cmd = "All"
    /\ \E w \in Workers : \E k \in 1..Len(received[w]) :
          LET t == received[w][k]
              ps == Before(t, SameDispatchId)
          IN  /\ ps # {}
              /\ PageViolation(Latest(ps).rdh, t.rdh)
              /\ PageErrors(t.mem_pos) = 1

\* Every RDH dispatched so far passes the sanity checks and keeps the page
\* sequence of its link: page 0 first, then by the rule.
ValidSoFar ==
    \A i \in 1..Len(dispatched) :
        LET t == dispatched[i]
            ps == Before(t, SameLink)
        IN  /\ t.rdh.ok
            /\ IF ps = {}
                  THEN t.rdh.pages_counter = 0
                  ELSE ~PageViolation(Latest(ps).rdh, t.rdh)

\* `check sanity` or `check all`, with no system or with system ITS.
LinkChecks == check.cmd # "NoCheck" /\ check.system # "ITS_Stave"

Elems(seq) == { seq[i] : i \in 1..Len(seq) }

\* The distinct bunch counters the lanes carry.
BcsOf(lanes) == { lanes[i].bunch_counter : i \in 1..Len(lanes) }

\* The lanes that carry bunch counter bc.
LanesCarrying(lanes, bc) ==
    { lanes[i].lane_id : i \in { j \in 1..Len(lanes) :
                                    lanes[j].bunch_counter = bc } }

\* seq holds every element of set once and nothing else.
ListsOnce(seq, set) == Elems(seq) = set /\ Len(seq) = Cardinality(set)

\* report is a mismatch report over lanes: every distinct bunch counter
\* once, each with exactly the lanes that carry it.
MismatchReport(report, lanes) ==
    /\ report.kind = "bc_mismatch"
    /\ ListsOnce([i \in 1..Len(report.partitions) |->
                     report.partitions[i].bunch_counter], BcsOf(lanes))
    /\ \A i \in 1..Len(report.partitions) :
          ListsOnce(report.partitions[i].lanes,
                    LanesCarrying(lanes, report.partitions[i].bunch_counter))

\* longer is shorter with n more elements at its end.
Extends(longer, shorter, n) ==
    /\ Len(longer) = Len(shorter) + n
    /\ SubSeq(longer, 1, Len(shorter)) = shorter

\* C26: when validate_lane_bcs runs after all lanes of a readout frame
\* are analysed, it pushes exactly one mismatch report if and only if the
\* validated lanes carry more than one distinct bunch counter; the report
\* names each distinct bunch counter once with exactly the lanes that
\* carry it, and every validated lane is added once to the lanes in
\* error; with zero or one distinct bunch counter both error lists are
\* left as they were.
C26_CrossLaneBunchCounters ==
    [][(frame_pc = "for_each" /\ frame_pc' = "returned") =>
          IF Cardinality(BcsOf(validated_lanes)) > 1
          THEN /\ Extends(lane_error_msgs', lane_error_msgs, 1)
               /\ MismatchReport(Last(lane_error_msgs'), validated_lanes)
               /\ Extends(lane_error_ids', lane_error_ids,
                          Len(validated_lanes))
               /\ ListsOnce(SubSeq(lane_error_ids', Len(lane_error_ids) + 1,
                                   Len(lane_error_ids')),
                            Elems(LaneIds(validated_lanes)))
          ELSE /\ lane_error_msgs' = lane_error_msgs
               /\ lane_error_ids' = lane_error_ids]_vars

\* A frame of three validated lanes, two of them with the same bunch
\* counter, has got its mismatch report.
C26_Witness ==
    /\ frame_pc = "returned"
    /\ Len(validated_lanes) = 3
    /\ Cardinality(BcsOf(validated_lanes)) = 2
    /\ Last(lane_error_msgs).kind = "bc_mismatch"
    /\ Len(lane_error_ids) = 3

\* The chips a lane recorded data for: those of the CHIP_HEADER and
\* CHIP_EMPTY_FRAME words that a bunch counter byte follows.
ChipsRecorded(h) ==
    { h[i].byte % 16 : i \in { j \in 1..(Len(h) - 1) :
          h[j].as \in {"ChipHeader", "ChipEmptyFrame"} } }

\* validate_alpide_frame has run its checks on the lane.
LaneChecked == lane_pc \in {"Ok", "Err", "panicked"}

\* The chips check_chip_count expects in a lane of the barrel.
ExpectedChipCount(d) == IF d.barrel = << "Inner" >> THEN 1 ELSE 7

ChipIdsPass(d, h) ==
    IF d.barrel = << "Inner" >>
    THEN ChipsRecorded(h) = {d.lane_number}
    ELSE ChipsRecorded(h) \in {0..6, 8..14}

\* C28: once a lane is decoded its checks end with a verdict on the chip
\* ids: no chip-id error if and only if the set of chip ids seen is
\* {0..6} or {8..14} in an Outer Barrel lane, or the chip id equals the
\* lane number in an Inner Barrel lane; otherwise a chip-id error is
\* reported for the lane.
C28_ChipIdCheck ==
    LaneChecked =>
        /\ lane_pc # "panicked"
        /\ ("Err_chip_id_order" \notin Elems(decoder.errors))
              <=> ChipIdsPass(decoder, handled)

\* An operand byte: the byte after a chip word, the bytes after a data
\* word.
IsOperand(as) == as \in {"Skipped", "BunchCounter"}

\* The operand bytes that belong to a byte handled as `as`, in order.
OperandsOf(as) ==
    IF as \in {"ChipHeader", "ChipEmptyFrame"} THEN << "BunchCounter" >>
    ELSE IF as = "DataShort" THEN << "Skipped" >>
    ELSE IF as = "DataLong" THEN << "Skipped", "Skipped" >>
    ELSE << >>

\* The byte at place i of h was decoded, as padding or as the word it
\* stands for, and the bytes after it were taken as its operands and
\* the byte after those decoded again.
DecodedWithOperands(h, i) ==
    LET ops == OperandsOf(h[i].as)
    IN  /\ h[i].as \in {"Padding", from_byte(h[i].byte)}
        /\ h[i].as = "Padding" => h[i].byte = 0
        /\ \A k \in 1..Len(ops) : i + k <= Len(h) => h[i + k].as = ops[k]
        /\ i + Len(ops) + 1 <= Len(h) => ~IsOperand(h[i + Len(ops) + 1].as)

\* The first bunch counter byte of chip id in h.
FirstBc(h, id) ==
    LET at == { i \in 2..Len(h) : /\ h[i].as = "BunchCounter"
                                  /\ h[i - 1].byte % 16 = id }
    IN  h[CHOOSE i \in at : \A j \in at : i <= j].byte

\* C29: the lane decoder takes CHIP_HEADER and CHIP_EMPTY_FRAME with the
\* byte after them, which is stored as the bunch counter of that chip,
\* DATA_SHORT with one byte after it, DATA_LONG with two, and every other
\* word alone; the bytes so taken are never decoded as a word or as
\* padding, whatever their value.
C29_WordLengths ==
    /\ handled # << >> => ~IsOperand(handled[1].as)
    /\ \A i \in 1..Len(handled) :
          ~IsOperand(handled[i].as) => DecodedWithOperands(handled, i)
    /\ \A id \in ChipsRecorded(handled) :
          \E i \in 1..Len(decoder.chip_data) :
             /\ decoder.chip_data[i].chip_id = id
             /\ decoder.chip_data[i].bunch_counter = << FirstBc(handled, id) >>

\* A lane of a CHIP_EMPTY_FRAME with bunch counter 0x00 and a DATA_SHORT
\* whose data byte is 0xA0 has been decoded.
C29_Witness ==
    /\ Len(handled) = 4
    /\ handled[1].as = "ChipEmptyFrame"
    /\ handled[2] = [byte |-> 0, as |-> "BunchCounter"]
    /\ handled[3].as = "DataShort"
    /\ handled[4] = [byte |-> 160, as |-> "Skipped"]
    /\ decoder.chip_data[1].bunch_counter = << 0 >>

\* A check or a view is enabled.
CheckOrView == IsSome(CheckOf(check)) \/ IsSome(config.view)

\* C30: whenever a check or a view is enabled the output mode is None;
\* with neither enabled, no output path gives Stdout, the output path
\* "stdout" gives Stdout and any other path gives File.
C30_OutputMode ==
    IsSome(output_mode) =>
        IF CheckOrView THEN output_mode = << "None" >>
        ELSE IF ~IsSome(config.output) THEN output_mode = << "Stdout" >>
        ELSE IF config.output = << "stdout" >> THEN output_mode = << "Stdout" >>
        ELSE output_mode = << "File" >>

\* The packets of a stream whose RDH passes the filter, in source order.
Kept(packets) == SelectSeq(packets, LAMBDA p : Passes(config, p))

\* The bytes of a packet proper: its RDH and its full payload.
PacketBytes(p) == EncodeRdh(p) \o p.payload

RECURSIVE BytesOf(_)
\* The bytes of the packets of a sequence, one after the other.
BytesOf(packets) ==
    IF packets = << >> THEN << >>
    ELSE PacketBytes(Head(packets)) \o BytesOf(Tail(packets))

\* No packet of the sequence is followed by padding: offset_to_next is
\* memory_size.
NoPadding(packets) ==
    \A i \in 1..Len(packets) : packets[i].padding = << >>

\* The filter run has read all its input.
FilterDone == filter_pc = "done"

PacketsRead ==
    CHOOSE n \in 0..Len(input_packets) :
        Len(EncodeStream(SubSeq(input_packets, 1, n))) = read_pos

\* C24: in filter mode the total RDH counter counts every RDH scanned,
\* whatever the filter, and the filtered RDH counter the RDHs that pass,
\* so rdhs_filtered <= rdhs_seen in every state; a filter target that
\* matches no RDH ends with rdhs_filtered = 0, a `not found` report, no
\* error and exit code 0.
C24_FilterCounters ==
    /\ filter_stats.rdhs_seen = PacketsRead
    /\ filter_stats.rdhs_filtered
          = Len(Kept(SubSeq(input_packets, 1, PacketsRead)))
    /\ filter_stats.rdhs_filtered <= filter_stats.rdhs_seen
    /\ (FilterDone /\ Kept(input_packets) = << >>) =>
          /\ filter_stats.rdhs_filtered = 0
          /\ filter_stats.report = << "not found" >>
          /\ stats.err_count = 0
          /\ exit_code = << 0 >>
    /\ (FilterDone /\ Kept(input_packets) # << >>) =>
          filter_stats.report # << "not found" >>

\* A stream of three packets none of which is of stave L3_0 has been
\* filtered for that stave.
C24_Witness ==
    /\ FilterDone
    /\ config.filter_its_stave = << << "L", "3", "_", "0" >> >>
    /\ Len(input_packets) = 3
    /\ filter_stats = [rdhs_seen |-> 3, rdhs_filtered |-> 0,
                       report |-> << "not found" >>]

\* Layer and stave a stave string names, whatever the case of its
\* letter.
TargetOf(str) ==
    [layer |-> DigitOf(str[2]), stave |-> NumberOf(SubSeq(str, 4, Len(str)))]

\* The packets of the stave that str names, in source order.
OfStave(packets, str) ==
    SelectSeq(packets, LAMBDA p : /\ layer(p.fee_id) = TargetOf(str).layer
                                  /\ stave(p.fee_id) = TargetOf(str).stave)

\* C25: the ITS stave filter L<layer>_<stave> lets an RDH pass if and
\* only if the layer and stave decoded from its fee_id are those of the
\* target, whatever the fiber uplink bits and whatever the case of the
\* letter; on a stream whose FEE ID is 524 throughout, L0_12 selects what
\* --filter-fee 524 selects, every RDH.
C25_StaveFilter ==
    FilterDone =>
        /\ IsSome(config.filter_its_stave) =>
              /\ Kept(input_packets)
                    = OfStave(input_packets, config.filter_its_stave[1])
              /\ output_data
                    = BytesOf(OfStave(input_packets, config.filter_its_stave[1]))
        /\ ( /\ \A i \in 1..Len(input_packets) : input_packets[i].fee_id = 524
             /\ \/ config.filter_fee = << 524 >>
                \/ /\ IsSome(config.filter_its_stave)
                   /\ TargetOf(config.filter_its_stave[1])
                         = [layer |-> 0, stave |-> 12] )
              => filter_stats.rdhs_filtered = Len(input_packets)

\* A stream with FEE 524, the same stave on another fiber uplink and the
\* same stave number on layer 1 has been filtered for stave l0_12: two
\* of the three passed.
C25_Witness ==
    /\ FilterDone
    /\ config.filter_its_stave = << << "l", "0", "_", "1", "2" >> >>
    /\ { input_packets[i].fee_id : i \in 1..Len(input_packets) }
          = {524, 44, 8204}
    /\ Len(input_packets) = 3
    /\ filter_stats.rdhs_filtered = 2

\* The TDHs seen so far that follow a TDH of the same orbit at a
\* distance other than period.
PeriodMismatches(period) ==
    { i \in 2..Len(tdhs_checked) :
        /\ tdhs_checked[i].orbit = tdhs_checked[i - 1].orbit
        /\ PeriodOf(tdhs_checked[i - 1], tdhs_checked[i]) # period }

FramingWords == {"ChipHeader", "RegionHeader", "ChipTrailer", "ChipEmptyFrame"}

\* Before place i of h a CHIP_HEADER or REGION_HEADER was decoded and no
\* CHIP_TRAILER or CHIP_EMPTY_FRAME after it.
HeaderOpen(h, i) ==
    LET fr == { j \in 1..(i - 1) : h[j].as \in FramingWords }
    IN  /\ fr # {}
        /\ h[CHOOSE j \in fr : \A k \in fr : k <= j].as
              \in {"ChipHeader", "RegionHeader"}

\* A 0x00 byte at place i of h that is no operand was ignored, and the
\* byte after it decoded, if `padding` holds; else it was decoded as the
\* word it stands for.
ZeroByteHandled(h, i, padding) ==
    IF padding
    THEN /\ h[i].as = "Padding"
         /\ i < Len(h) => ~IsOperand(h[i + 1].as)
    ELSE h[i].as = from_byte(0)

LaneErrorKinds ==
    {"Err_bc_conflict", "Err_bunch_counters", "Err_chip_count",
     "Err_chip_id_order"}

\* C38: validate_alpide_frame never panics: for every byte sequence of a
\* lane (an empty lane, a lane of only padding and a lane with no chip
\* header among them) and for both barrels it returns Ok or Err, and it
\* returns Ok if and only if no decode error, no bunch-counter mismatch,
\* no chip-count error and no chip-id error was found.
C38_ValidateNeverPanics ==
    /\ lane_pc # "panicked"
    /\ LaneChecked =>
          /\ lane_pc \in {"Ok", "Err"}
          /\ lane_pc = "Ok" <=>
                Elems(decoder.errors) \cap LaneErrorKinds = {}

\* The lanes of frames whose analysis ended with result.
LanesEnding(frames, result) ==
    SelectSeq(frames, LAMBDA lane : lane.result = result)

\* The places of seq that hold x.
PlacesOf(seq, x) == { i \in 1..Len(seq) : seq[i] = x }

\* The cross-lane reports among msgs.
CrossLaneReports(msgs) ==
    { i \in 1..Len(msgs) : msgs[i].kind = "bc_mismatch" }

\* C39: only lanes whose own analysis produced no error take part in the
\* cross-lane bunch-counter comparison: a lane whose analysis returned
\* errors is recorded once in the error lists with its messages, and its
\* bunch counter neither causes nor suppresses a cross-lane mismatch, so
\* a readout frame whose error-free lanes all agree yields no cross-lane
\* error.
C39_OnlyErrorFreeLanesCompared ==
    frame_pc = "returned" =>
        LET failed == LanesEnding(lane_frames, "Err")
            free == LanesEnding(lane_frames, "Ok")
            valid == [i \in 1..Len(free) |->
                         ValidatedLane(free[i].lane_number,
                                       free[i].bunch_counter)]
        IN  /\ \A i \in 1..Len(failed) :
                  /\ Cardinality(PlacesOf(lane_error_ids,
                                          failed[i].lane_number)) = 1
                  /\ Cardinality(PlacesOf(lane_error_msgs,
                         LaneError(failed[i].lane_number))) = 1
            /\ validated_lanes = valid
            /\ (CrossLaneReports(lane_error_msgs) # {})
                  <=> Cardinality(BcsOf(valid)) > 1
            /\ \A i \in CrossLaneReports(lane_error_msgs) :
                  MismatchReport(lane_error_msgs[i], valid)

\* A frame of three lanes has been analysed: two error-free lanes agree
\* on the bunch counter, the third lane failed with another bunch
\* counter, and the only error of the frame is that of the third lane.
C39_Witness ==
    /\ frame_pc = "returned"
    /\ Len(lane_frames) = 3
    /\ Len(validated_lanes) = 2
    /\ Cardinality(BcsOf(validated_lanes)) = 1
    /\ Cardinality(BcsOf(lane_frames)) = 2
    /\ Len(lane_error_msgs) = 1
    /\ lane_error_msgs[1].kind = "lane"

\* The dispatcher is between two calls of its owner.
BetweenCalls == pc = "dispatch" /\ cdp_array = << >>

\* C37: after any sequence of dispatch_cdp_batch and join calls on a
\* ValidatorDispatcher the list of known DispatchIds and the list of
\* worker senders have the same length, so the unchecked index that
\* picks the sender of a known DispatchId is always within bounds, also
\* for a dispatch issued after join.
C37_SendersMatchProcessors ==
    /\ BetweenCalls => Len(processors) = Len(process_channels)
    /\ \A i \in 1..Len(processors) :
          pc = "dispatch" =>
             TargetIndex(processors, processors[i])
                \in 1..Len(process_channels)
    /\ pc # "crashed"

\* The threads that have panicked.
PanickedWorkers == { w \in Workers : worker[w] = "panicked" }

\* C36: a worker failure is never silently ignored by the dispatcher: a
\* tuple given to dispatch_by_id for a worker whose receiver has been
\* dropped is not discarded while the dispatcher goes on, the dispatcher
\* panics on it; and the join of a worker thread that panicked makes the
\* dispatcher panic, so join never returns over a panicked worker.
C36_WorkerFailureFatal ==
    /\ [][/\ (Len(dispatched') > Len(dispatched) /\ sent' = sent)
                => (/\ pc' = "panicked"
                    /\ ~chan[process_channels[TargetIndex(processors,
                           Last(dispatched').id)]].receiver)
          /\ (Elems(joined') \ Elems(joined)) \cap PanickedWorkers # {}
                => pc' = "panicked"]_vars
    /\ [](pc = "done" => PanickedWorkers = {})

\* A worker has panicked on its first tuple, and the dispatcher has
\* panicked on the next tuple of the same ID, which no worker was sent.
C36_Witness ==
    /\ pc = "panicked"
    /\ joined = << >>
    /\ Len(dispatched) = 2
    /\ dispatched[1].id = dispatched[2].id
    /\ Len(sent) = 1
    /\ Len(sent[1]) = 1
    /\ worker[1] = "panicked"

\* Raw data is written: the output mode is File or Stdout.
RawOutputEnabled == output_mode \in {<< "File" >>, << "Stdout" >>}

\* C40: for every configuration in which raw data output is enabled, the
\* output mode being File or Stdout, skip_payload() is false, so that
\* the filtered output carries the full payload of each packet written.
C40_OutputKeepsPayload ==
    (RawOutputEnabled /\ IsSome(payload_skipped)) =>
        payload_skipped = << FALSE >>

\* main is at stat_controller.join() or past it.
AtStatsJoin == main_pc \in {"join_stats", "exited"}

\* Processing is over: it never began, the reader or the RDH version
\* being no good, or fastpasta::process has returned.
ProcessingOver ==
    \/ ~reader_ok
    \/ header_id \notin {6, 7}
    \/ IsSome(process_result)

\* Every worker thread has exited and was joined.
WorkersJoined ==
    /\ validator_thread_handles = << >>
    /\ \A w \in Workers : worker[w] = "exited"
    /\ Len(joined) = Len(worker)

\* C34: the stats thread is joined last: main joins the stats thread
\* only after processing has finished and all workers have been joined,
\* and at that point every clone of the stats sender has been dropped,
\* on every path (reader-init failure, unknown version, processing Ok or
\* Err), so the join always terminates.
C34_StatsJoinedLast ==
    /\ [](AtStatsJoin =>
            /\ ProcessingOver
            /\ WorkersJoined
            /\ stats_senders = {})
    /\ (main_pc = "join_stats") ~> (main_pc = "exited")

\* main waits for the stats thread after a run whose processing returned
\* Err with two workers joined, and the stats thread is still at work on
\* its inbox.
C34_Witness ==
    /\ main_pc = "join_stats"
    /\ process_result = << "Err" >>
    /\ Len(joined) = 2
    /\ stats_pc = "running"
    /\ stats_inbox # << >>

\* The tuples of the whole stream, in stream order.
RECURSIVE TuplesUpTo(_)
TuplesUpTo(k) ==
    IF k = 0 THEN << >> ELSE TuplesUpTo(k - 1) \o view_stream[k]

\* The run of the view is over: every CdpArray of the stream was rendered.
ViewOver ==
    /\ view_pc = "scan"
    /\ view_stream # << >>
    /\ scanned = Len(view_stream)

\* C33: the RDH view of a run prints one header row followed by exactly one
\* line per RDH of the stream, in stream order, each line carrying the memory
\* offset of its RDH in hexadecimal, and rendering leaves the tuples it is
\* given as they were.
C33_OneHeaderRowPerRun ==
    /\ ViewOver =>
          view_out = << HeaderRow >>
                     \o [i \in 1..Len(TuplesUpTo(Len(view_stream))) |->
                            RdhLine(TuplesUpTo(Len(view_stream))[i])]
    /\ view_pc = "viewed" => cdp_array = view_stream[scanned]

\* The errors reported by one of the comparisons for one counter.
ErrorsNaming(source, name) ==
    SelectSeq(post_errors,
              LAMBDA e : e.source = source /\ e.counter = name)

\* The comparison with the snapshot is over.
Compared == post_pc \in {"compared", "checked", "returned"}

\* In input-stats mode each counter of the run was compared with the
\* snapshot: no error for a snapshot equal to the counters of the run, one
\* error naming each counter that differs, and every error is counted.
InputStatsCompared ==
    (Compared /\ IsSome(input_stats))
    => /\ \A k \in 1..Len(CounterNames) :
             Len(ErrorsNaming("input_stats", CounterNames[k]))
                = IF input_stats[1][CounterNames[k]]
                        = observed[1][CounterNames[k]]
                     THEN 0 ELSE 1
       /\ input_stats = observed
             => ErrorsNaming("input_stats", "rdhs_seen")
                   \o ErrorsNaming("input_stats", "cdps")
                   \o ErrorsNaming("input_stats", "triggers_pht") = << >>
       /\ stats.err_count >= Len(SelectSeq(post_errors,
                                 LAMBDA e : e.source = "input_stats"))

\* C31: in input-stats mode each observed counter is compared after the run
\* with the snapshot given: a snapshot of the same run yields no error, a
\* snapshot in which a counter differs yields an error naming the mismatch,
\* and that error is counted and so decides the exit code under -E.
C31_InputStatsMismatchDecidesExit ==
    /\ InputStatsCompared
    /\ (/\ MainReturned
        /\ ~FatalSent
        /\ IsSome(input_stats)
        /\ input_stats # observed
        /\ IsSome(config.any_errors_exit_code))
       => exit_code = << config.any_errors_exit_code[1] >>

\* The assertions of the checks file were made.
Checked == post_pc \in {"checked", "returned"}

====
